---- MODULE Spec2Model ----
(***************************************************************************)
(* arena-json: a region (arena) allocator, a JSON value tree built in      *)
(* arena memory, a recursive-descent parser and a two-pass serializer.     *)
(*                                                                         *)
(* Memory is modelled at the granularity of 8-byte words.  A pointer is an *)
(* integer address; region number r is the malloc block at address         *)
(* r * RegionStride, its data[] starts SizeofArenaRegion bytes later.      *)
(***************************************************************************)
EXTENDS Integers, Sequences, FiniteSets, TLC

VARIABLES
    arena,      \* the Arena struct: [begin, end], region numbers or NULL
    regions,    \* every ArenaRegion header ever malloc'ed: next, capacity, count, live
    sysmem,     \* how many more blocks the system allocator can hand out
    mem,        \* the words stored in region data so far, by address
    fresh,      \* what a never-written word of a malloc'ed block holds
    held,       \* the JsonValue pointers the caller holds
    parse,      \* the json_parse call in progress: its arguments, its ParseState,
                \* the parse_array / parse_object frames on the stack, its result
    temps,      \* the ArenaTemp structs the caller holds (by value)
    last,       \* the last API call and what it returned
    nops,       \* API calls made so far
    ub          \* set once the program has executed undefined behaviour

vars == <<arena, regions, sysmem, mem, fresh, held, parse, temps, last, nops, ub>>

(***************************************************************************)
(* Bounds of the model.                                                    *)
(***************************************************************************)
MaxRegions == 3     \* malloc'ed regions over one run
MaxTemps   == 2     \* ArenaTemp structs the caller takes
MaxOps     == 6     \* API calls in one run

(***************************************************************************)
(* Program constants (LP64).                                               *)
(***************************************************************************)
NULL == 0
\* what a pointer-sized load yields when the bytes are not a pointer the
\* program stored there and are not all zero
Wild == -1
ARENA_DEFAULT_BLOCK_SIZE == 8192
ARENA_ALIGNMENT == 16
SizeofArenaRegion == 24

\* malloc returns ARENA_ALIGNMENT-aligned blocks; blocks are RegionStride apart
RegionStride == 65536 * ARENA_ALIGNMENT

\* (uintptr_t) r->data
DataAddr(r) == r * RegionStride + SizeofArenaRegion

\* the region a data address lies in
RegionOf(addr) == addr \div RegionStride

\* no json_parse call has been made
NoCall == [pc |-> "idle"]

\* request sizes the caller of the bare allocator uses
AllocSizes == {0, 3000, 8192, 20000}

(***************************************************************************)
(* arena.h                                                                 *)
(***************************************************************************)
arena__align_forward(ptr, align) ==
    LET modulo == ptr % align
    IN  IF modulo # 0 THEN ptr + (align - modulo) ELSE ptr

\* m is the machine state a call works on: [arena, regions, sysmem, mem,
\* fresh]; the result adds the returned region r
arena__new_region(m, capacity) ==
    IF m.sysmem = 0
    THEN [m |-> m, r |-> NULL]
    ELSE [m |-> [m EXCEPT !.regions = Append(@, [next |-> NULL,
                                                  capacity |-> capacity,
                                                  count |-> 0,
                                                  live |-> TRUE]),
                          !.sysmem = @ - 1],
          r |-> Len(m.regions) + 1]

\* free(r) of a region header; what a freed block holds is indeterminate, so
\* the model keeps nothing of it
FreeRegion(m, r) ==
    [m EXCEPT !.regions[r] = [next |-> NULL, capacity |-> 0, count |-> 0,
                              live |-> FALSE],
              !.mem = [a \in {x \in DOMAIN m.mem : RegionOf(x) # r} |-> m.mem[a]],
              !.sysmem = @ + 1]

\* the tail of arena_alloc: bump the current region
AllocProceed(m, size) ==
    LET e        == m.arena.end
        curr_ptr == DataAddr(e) + m.regions[e].count
        next_ptr == arena__align_forward(curr_ptr, ARENA_ALIGNMENT)
        padding  == next_ptr - curr_ptr
    IN  [m |-> [m EXCEPT !.regions[e].count = @ + padding + size],
         ptr |-> next_ptr]

\* the walk without the store a->end->count = 0 on the region it adopts
RECURSIVE RecycleWalkKeepsCount(_, _)
RecycleWalkKeepsCount(m, size) ==
    LET e    == m.arena.end
        next == m.regions[e].next
    IN  IF next = NULL THEN [m |-> m, found |-> FALSE]
        ELSE IF m.regions[next].capacity >= size + ARENA_ALIGNMENT
        THEN [m |-> [m EXCEPT !.arena.end = next], found |-> TRUE]
        ELSE RecycleWalkKeepsCount(
                 FreeRegion([m EXCEPT !.regions[e].next = m.regions[next].next], next),
                 size)

\* step 2 of arena_alloc: walk the regions after the current one; adopt the
\* first that is big enough, unlink and free the ones that are too small
RECURSIVE RecycleWalk(_, _)
RecycleWalk(m, size) ==
    LET e    == m.arena.end
        next == m.regions[e].next
        needed_cap == size + ARENA_ALIGNMENT
    IN  IF next = NULL THEN [m |-> m, found |-> FALSE]
        ELSE IF m.regions[next].capacity >= needed_cap
        THEN [m |-> [m EXCEPT !.arena.end = next, !.regions[next].count = 0],
              found |-> TRUE]
        ELSE RecycleWalk(FreeRegion([m EXCEPT !.regions[e].next = m.regions[next].next],
                                    next), size)

\* the growth step with a region of just under size + ARENA_ALIGNMENT bytes,
\* without the doubling and the ARENA_DEFAULT_BLOCK_SIZE floor
GrowRegionTight(m, size) ==
    LET e  == m.arena.end
        n  == arena__new_region(m, size + ARENA_ALIGNMENT - 1)
    IN  IF n.r = NULL THEN [m |-> n.m, ptr |-> NULL]
        ELSE AllocProceed([n.m EXCEPT !.regions[e].next = n.r, !.arena.end = n.r], size)

\* step 3 of arena_alloc: no later region fits, grow
GrowRegion(m, size) ==
    LET e  == m.arena.end
        c2 == m.regions[e].capacity * 2
        c3 == IF size + ARENA_ALIGNMENT > c2 THEN size + ARENA_ALIGNMENT ELSE c2
        new_cap == IF c3 < ARENA_DEFAULT_BLOCK_SIZE THEN ARENA_DEFAULT_BLOCK_SIZE ELSE c3
        n  == arena__new_region(m, new_cap)
    IN  IF n.r = NULL THEN [m |-> n.m, ptr |-> NULL]
        ELSE AllocProceed([n.m EXCEPT !.regions[e].next = n.r, !.arena.end = n.r], size)

\* arena_alloc once a->end is set
AllocInCurrent(m, size) ==
    LET e        == m.arena.end
        curr_ptr == DataAddr(e) + m.regions[e].count
        next_ptr == arena__align_forward(curr_ptr, ARENA_ALIGNMENT)
        padding  == next_ptr - curr_ptr
    IN  IF m.regions[e].count + padding + size > m.regions[e].capacity
        THEN LET w == RecycleWalk(m, size)
             IN  IF w.found THEN AllocProceed(w.m, size) ELSE GrowRegion(w.m, size)
        ELSE AllocProceed(m, size)

arena_alloc(m, size) ==
    IF size = 0 THEN [m |-> m, ptr |-> NULL]
    ELSE IF m.arena.end = NULL
    THEN IF m.arena.begin # NULL
         THEN AllocInCurrent([m EXCEPT !.arena.end = m.arena.begin,
                                       !.regions[m.arena.begin].count = 0], size)
         ELSE LET cap == IF size > ARENA_DEFAULT_BLOCK_SIZE THEN size
                         ELSE ARENA_DEFAULT_BLOCK_SIZE
                  n   == arena__new_region(m, cap)
              IN  IF n.r = NULL THEN [m |-> n.m, ptr |-> NULL]
                  ELSE AllocInCurrent([n.m EXCEPT !.arena.begin = n.r,
                                                  !.arena.end = n.r], size)
    ELSE AllocInCurrent(m, size)

\* arena_reset without the store a->end->count = 0
arena_reset_keeps_count(m) ==
    IF m.arena.begin # NULL
    THEN [m EXCEPT !.arena.end = m.arena.begin]
    ELSE [m EXCEPT !.arena.end = NULL]

arena_reset(m) ==
    IF m.arena.begin # NULL
    THEN [m EXCEPT !.arena.end = m.arena.begin, !.regions[m.arena.begin].count = 0]
    ELSE [m EXCEPT !.arena.end = NULL]

RECURSIVE FreeChain(_, _)
FreeChain(m, curr) ==
    IF curr = NULL THEN m
    ELSE FreeChain(FreeRegion(m, curr), m.regions[curr].next)

arena_free(m) ==
    [FreeChain(m, m.arena.begin) EXCEPT !.arena = [begin |-> NULL, end |-> NULL]]

arena_temp_begin(m) ==
    [old_end   |-> m.arena.end,
     old_count |-> IF m.arena.end # NULL THEN m.regions[m.arena.end].count ELSE 0]

\* arena_temp_end without the store to end->count
arena_temp_end_keeps_count(m, temp) ==
    [m EXCEPT !.arena.end = temp.old_end]

\* writes through temp.old_end; the caller of this operator checks that the
\* region is still live
arena_temp_end(m, temp) ==
    IF temp.old_end # NULL
    THEN [m EXCEPT !.arena.end = temp.old_end,
                   !.regions[temp.old_end].count = temp.old_count]
    ELSE [m EXCEPT !.arena.end = NULL]

(***************************************************************************)
(* The caller of the bare allocator.                                       *)
(***************************************************************************)
Machine == [arena |-> arena, regions |-> regions, sysmem |-> sysmem,
            mem |-> mem, fresh |-> fresh]

\* the regions linked from a->begin, in order, with their capacities
RECURSIVE ChainFrom(_, _, _)
ChainFrom(regs, r, fuel) ==
    IF r = NULL \/ fuel = 0 THEN <<>>
    ELSE <<[r |-> r, capacity |-> regs[r].capacity]>>
         \o ChainFrom(regs, regs[r].next, fuel - 1)

Chain(regs, a) == ChainFrom(regs, a.begin, Len(regs))

ChainIds(regs, a) == { Chain(regs, a)[i].r : i \in 1..Len(Chain(regs, a)) }

\* the allocation pointer: current region and its used-byte count
Position(regs, a) ==
    [end |-> a.end, count |-> IF a.end # NULL THEN regs[a.end].count ELSE 0]

\* the part of the chain up to and including region r (empty when r = NULL)
RECURSIVE PrefixUpTo(_, _)
PrefixUpTo(chain, r) ==
    IF r = NULL \/ chain = <<>> THEN <<>>
    ELSE IF Head(chain).r = r THEN <<Head(chain)>>
    ELSE <<Head(chain)>> \o PrefixUpTo(Tail(chain), r)

Innermost(i) == temps[i].open /\ \A j \in (i+1)..Len(temps) : ~temps[j].open

\* a checkpoint that has been ended: the caller still holds the struct
Closed(h) == [temp |-> h.temp, open |-> FALSE, dirty |-> h.dirty, chain |-> <<>>,
              pos |-> h.pos]

\* every checkpoint taken so far has seen arena_reset or arena_free
Taint == [i \in 1..Len(temps) |-> [temps[i] EXCEPT !.dirty = TRUE]]

Commit(m) ==
    /\ Len(m.regions) <= MaxRegions
    /\ nops < MaxOps
    /\ nops' = nops + 1
    /\ arena' = m.arena
    /\ regions' = m.regions
    /\ sysmem' = m.sysmem
    /\ mem' = m.mem
    /\ UNCHANGED <<fresh, parse>>

ArenaAlloc(size) ==
    /\ ~ub
    /\ LET r == arena_alloc(Machine, size)
       IN  /\ Commit(r.m)
           /\ last' = [op |-> "arena_alloc", failed |-> (size # 0 /\ r.ptr = NULL)]
    /\ UNCHANGED <<temps, held, ub>>

ArenaReset ==
    /\ ~ub
    /\ Commit(arena_reset(Machine))
    /\ temps' = Taint
    /\ last' = [op |-> "arena_reset"]
    /\ UNCHANGED <<held, ub>>

ArenaFree ==
    /\ ~ub
    /\ arena.begin # NULL
    /\ Commit(arena_free(Machine))
    /\ temps' = Taint
    /\ last' = [op |-> "arena_free"]
    /\ UNCHANGED <<held, ub>>

ArenaTempBegin ==
    /\ ~ub
    /\ Len(temps) < MaxTemps
    /\ temps' = Append(temps, [temp  |-> arena_temp_begin(Machine),
                               open  |-> TRUE,
                               dirty |-> FALSE,
                               chain |-> Chain(regions, arena),
                               pos   |-> Position(regions, arena)])
    /\ last' = [op |-> "arena_temp_begin"]
    /\ nops < MaxOps
    /\ nops' = nops + 1
    /\ UNCHANGED <<arena, regions, sysmem, mem, fresh, held, parse, ub>>

\* ArenaTemp is a plain struct: the caller can pass any one it holds, in any
\* order and more than once
ArenaTempEnd(i) ==
    /\ ~ub
    /\ LET t == temps[i].temp
           dangling == t.old_end # NULL /\ ~regions[t.old_end].live
       IN  /\ IF dangling
              THEN \* temp.arena->end->count = ... stores into a freed block
                   /\ arena' = [arena EXCEPT !.end = t.old_end]
                   /\ nops < MaxOps
                   /\ nops' = nops + 1
                   /\ UNCHANGED <<regions, sysmem, mem, fresh, parse>>
                   /\ ub' = TRUE
              ELSE /\ Commit(arena_temp_end(Machine, t))
                   /\ UNCHANGED ub
           /\ last' = [op |-> "arena_temp_end",
                       stale |-> ~temps[i].open,
                       dirty |-> temps[i].dirty,
                       chain |-> temps[i].chain,
                       pos |-> temps[i].pos,
                       pre |-> Position(regions, arena)]
    /\ UNCHANGED held
    /\ temps' = [j \in 1..Len(temps) |->
                   IF j >= i /\ temps[j].open THEN Closed(temps[j])
                   ELSE IF j < i /\ temps[j].open /\ ~temps[i].open
                   THEN [temps[j] EXCEPT !.dirty = TRUE]
                   ELSE temps[j]]

InitArena ==
    /\ arena = [begin |-> NULL, end |-> NULL]
    /\ regions = <<>>
    /\ sysmem \in 0..MaxRegions
    /\ mem = <<>>
    /\ fresh = "zero"
    /\ held = {}
    /\ parse = NoCall
    /\ temps = <<>>
    /\ last = [op |-> "arena_init"]
    /\ nops = 0
    /\ ub = FALSE

NextArena ==
    \/ \E size \in AllocSizes : ArenaAlloc(size)
    \/ ArenaReset
    \/ ArenaFree
    \/ ArenaTempBegin
    \/ \E i \in 1..Len(temps) : ArenaTempEnd(i)

SpecArena == InitArena /\ [][NextArena]_vars

(***************************************************************************)
(* Checkpoints                                                             *)
(***************************************************************************)
\* the place of region r in the chain (0 for NULL or an unlinked region)
RegionIndex(chain, r) ==
    IF \E i \in 1..Len(chain) : chain[i].r = r
    THEN CHOOSE i \in 1..Len(chain) : chain[i].r = r
    ELSE 0

\* position p is later in the arena than position q
Later(chain, p, q) ==
    \/ RegionIndex(chain, p.end) > RegionIndex(chain, q.end)
    \/ p.end = q.end /\ p.count > q.count

\* a checkpoint was ended that was open, with nothing but allocations and
\* nested checkpoints since its begin
CleanEnd == last.op = "arena_temp_end" /\ ~last.stale /\ ~last.dirty

\* C3 as stated: after arena_temp_end the allocation pointer and the whole
\* chain of regions (members, order, capacities) are what they were at
\* arena_temp_begin
C3_CheckpointRestoresPointerAndChain ==
    CleanEnd => /\ Position(regions, arena) = last.pos
                /\ Chain(regions, arena) = last.chain

\* C3 amended: after arena_temp_end the allocation pointer (current region and
\* used-byte count) is what it was at arena_temp_begin, and the regions up to
\* and including the current one are still linked with their capacities; the
\* regions after it may have been freed, and regions allocated inside the
\* checkpoint stay linked
C3_CheckpointRestoresPointer ==
    CleanEnd => /\ ~ub
                /\ Position(regions, arena) = last.pos
                /\ PrefixUpTo(Chain(regions, arena), arena.end)
                     = PrefixUpTo(last.chain, last.pos.end)

\* a clean end that rewound allocations which had changed the chain
C3_Witness ==
    /\ CleanEnd
    /\ last.pre # last.pos
    /\ Chain(regions, arena) # last.chain
    /\ Len(last.chain) > 0

\* C4: an arena_temp_end on a checkpoint that is no longer open (an enclosing
\* checkpoint was ended before it, or it was ended already) is rejected: in a
\* run of arena_temp_begin, arena_temp_end and arena_alloc calls it never
\* moves the current region or the used-byte count forward
C4_StaleEndNeverAdvances ==
    (last.op = "arena_temp_end" /\ last.stale /\ ~last.dirty /\ ~ub)
        => ~Later(Chain(regions, arena), Position(regions, arena), last.pre)

(***************************************************************************)
(* The recycling walk                                                      *)
(***************************************************************************)
\* the region arena_alloc starts from and its used bytes: a->end, or a->begin
\* rewound when a->end is NULL
Current0(m) == IF m.arena.end # NULL THEN m.arena.end ELSE m.arena.begin
Used0(m) == IF m.arena.end # NULL THEN m.regions[m.arena.end].count ELSE 0

Padding(addr) == arena__align_forward(addr, ARENA_ALIGNMENT) - addr

\* the request does not fit in the current region
Overflows(m, size) ==
    /\ size # 0
    /\ Current0(m) # NULL
    /\ Used0(m) + Padding(DataAddr(Current0(m)) + Used0(m)) + size
          > m.regions[Current0(m)].capacity

\* the regions linked after the current one, in order
LaterRegions(m) == ChainFrom(m.regions, m.regions[Current0(m)].next, Len(m.regions))

\* the places among them of the regions that are big enough
Fits(m, size) ==
    {i \in 1..Len(LaterRegions(m)) :
        LaterRegions(m)[i].capacity >= size + ARENA_ALIGNMENT}

FirstFit(m, size) == CHOOSE i \in Fits(m, size) : \A j \in Fits(m, size) : i <= j

\* C20: when a request does not fit in the current region, arena_alloc adopts
\* the first later region of the chain whose capacity is >= size +
\* ARENA_ALIGNMENT, with its used count started from zero, without a system
\* allocation; every later region it passed over before that one is unlinked
\* and freed; after the call no region lies between the previous current
\* region and the new one, and the chain from the new one on is as it was
C20_RecyclingWalk ==
    [][\A size \in AllocSizes :
          (ArenaAlloc(size) /\ Overflows(Machine, size) /\ Fits(Machine, size) # {}) =>
              /\ arena'.end = LaterRegions(Machine)[FirstFit(Machine, size)].r
              /\ regions'[arena'.end].count = Padding(DataAddr(arena'.end)) + size
              /\ Len(regions') = Len(regions)
              /\ sysmem' = sysmem + FirstFit(Machine, size) - 1
              /\ \A j \in 1..(FirstFit(Machine, size) - 1) :
                     ~regions'[LaterRegions(Machine)[j].r].live
              /\ regions'[Current0(Machine)].next = arena'.end
              /\ ChainFrom(regions', arena'.end, Len(regions'))
                    = SubSeq(LaterRegions(Machine), FirstFit(Machine, size),
                             Len(LaterRegions(Machine)))]_vars

\* arena_alloc has passed over and freed the second region and adopted the
\* third, which had been grown from the second
C20_Witness ==
    /\ last.op = "arena_alloc"
    /\ ~last.failed
    /\ Len(regions) = 3
    /\ arena.begin = 1
    /\ arena.end = 3
    /\ regions[1].next = 3
    /\ regions[1].count = 0
    /\ ~regions[2].live
    /\ regions[3].capacity = 4 * ARENA_DEFAULT_BLOCK_SIZE
    /\ regions[3].count > 0

(***************************************************************************)
(* Growth                                                                  *)
(***************************************************************************)
Max2(a, b) == IF a >= b THEN a ELSE b

\* the capacity step 3 of arena_alloc asks for
GrownCapacity(m, size) ==
    Max2(Max2(2 * m.regions[Current0(m)].capacity, size + ARENA_ALIGNMENT),
         ARENA_DEFAULT_BLOCK_SIZE)

\* a successful request the current region cannot hold, with no later region
\* to adopt: exactly one region is added, of the grown capacity, linked
\* directly after the current region as the last region, and adopted
GrowsOneRegion(size) ==
    (ArenaAlloc(size) /\ ~last'.failed /\ Overflows(Machine, size)
        /\ Fits(Machine, size) = {}) =>
            /\ Len(regions') = Len(regions) + 1
            /\ arena'.end = Len(regions')
            /\ regions'[arena'.end].capacity = GrownCapacity(Machine, size)
            /\ regions'[Current0(Machine)].next = arena'.end
            /\ regions'[arena'.end].next = NULL
            /\ regions'[arena'.end].count = Padding(DataAddr(arena'.end)) + size

\* a successful request on an empty arena: the first region has capacity
\* max(ARENA_DEFAULT_BLOCK_SIZE, size) and the request is served from it
FirstRegionServes(size) ==
    (ArenaAlloc(size) /\ ~last'.failed /\ size # 0 /\ arena.begin = NULL) =>
        /\ arena'.begin = Len(regions) + 1
        /\ regions'[arena'.begin].capacity = Max2(ARENA_DEFAULT_BLOCK_SIZE, size)
        /\ arena'.end = arena'.begin
        /\ regions'[arena'.begin].count = Padding(DataAddr(arena'.begin)) + size
        /\ Len(regions') = Len(regions) + 1

\* C21: growth policy: when no later region can be adopted, arena_alloc
\* allocates exactly one new region of capacity max(2 x the current region's
\* capacity, size + ARENA_ALIGNMENT, ARENA_DEFAULT_BLOCK_SIZE), links it
\* directly after the current region as the new last region and adopts it;
\* the very first region of an empty arena has capacity
\* max(ARENA_DEFAULT_BLOCK_SIZE, size) and the request is served from it
C21_GrowthPolicy ==
    [][\A size \in AllocSizes : GrowsOneRegion(size) /\ FirstRegionServes(size)]_vars

(***************************************************************************)
(* arena_reset                                                             *)
(***************************************************************************)
\* C16: arena_reset releases nothing: it frees no region and leaves the chain
\* of regions (members, order, capacities) unchanged; afterwards the current
\* region is the first region of the chain with zero used bytes, or the arena
\* stays empty
C16_ResetReleasesNothing ==
    [][ArenaReset =>
          /\ sysmem' = sysmem
          /\ Len(regions') = Len(regions)
          /\ \A r \in 1..Len(regions) : regions'[r].live = regions[r].live
          /\ Chain(regions', arena') = Chain(regions, arena)
          /\ arena'.begin = arena.begin
          /\ arena'.end = arena.begin
          /\ arena.begin # NULL =>
                /\ Chain(regions', arena')[1].r = arena'.end
                /\ regions'[arena'.end].count = 0]_vars

\* arena_reset has rewound an arena whose later region still holds the bytes
\* that were allocated from it
C16_Witness ==
    /\ last.op = "arena_reset"
    /\ Len(Chain(regions, arena)) >= 2
    /\ regions[Chain(regions, arena)[2].r].count > 0
    /\ arena.end = arena.begin
    /\ regions[arena.end].count = 0

(***************************************************************************)
(* Repeated cycles: the caller of json_tester.c's benchmark loop, reduced   *)
(* to the allocation requests a cycle makes.  last carries the requests of  *)
(* the first cycle (sizes), what they returned (got), the number of resets  *)
(* so far (cycle) and the number of requests re-issued since the last one   *)
(* (i).                                                                     *)
(***************************************************************************)
MaxCycleLen == 3    \* requests in one cycle
MaxCycles   == 2    \* arena_reset calls in one run

Apply(m) ==
    /\ arena' = m.arena
    /\ regions' = m.regions
    /\ sysmem' = m.sysmem
    /\ mem' = m.mem
    /\ nops' = nops + 1
    /\ UNCHANGED <<fresh, parse, held, temps, ub>>

\* a request of the first cycle, on an arena that was empty at its start
FirstAlloc(size) ==
    /\ last.cycle = 0
    /\ Len(last.sizes) < MaxCycleLen
    /\ LET r == arena_alloc(Machine, size)
       IN  /\ Apply(r.m)
           /\ last' = [last EXCEPT !.op = "arena_alloc",
                                   !.sizes = Append(@, size),
                                   !.got = Append(@, r.ptr),
                                   !.ptr = r.ptr]

\* arena_reset at the top of the next cycle
CycleReset ==
    /\ last.cycle < MaxCycles
    /\ last.cycle = 0 \/ last.i = Len(last.sizes)
    /\ Apply(arena_reset(Machine))
    /\ last' = [last EXCEPT !.op = "arena_reset", !.cycle = @ + 1, !.i = 0,
                            !.ptr = NULL]

\* the next request of a later cycle: the same size as in the first
ReplayAlloc ==
    /\ last.cycle > 0
    /\ last.i < Len(last.sizes)
    /\ LET r == arena_alloc(Machine, last.sizes[last.i + 1])
       IN  /\ Apply(r.m)
           /\ last' = [last EXCEPT !.op = "arena_alloc", !.i = @ + 1, !.ptr = r.ptr]

InitCycle ==
    /\ arena = [begin |-> NULL, end |-> NULL]
    /\ regions = <<>>
    /\ sysmem \in 0..(MaxRegions + 1)
    /\ mem = <<>>
    /\ fresh = "zero"
    /\ held = {}
    /\ parse = NoCall
    /\ temps = <<>>
    /\ last = [op |-> "arena_init", sizes |-> <<>>, got |-> <<>>, cycle |-> 0,
               i |-> 0, ptr |-> NULL]
    /\ nops = 0
    /\ ub = FALSE

NextCycle ==
    \/ \E size \in AllocSizes : FirstAlloc(size)
    \/ CycleReset
    \/ ReplayAlloc

SpecCycle == InitCycle /\ [][NextCycle]_vars

\* C22: after arena_reset, re-issuing the sequence of allocation sizes that
\* was issued since the arena was empty performs no system allocation and
\* frees no region: the regions, their links and capacities stay as they
\* were, and every request that was served in the first cycle is served
\* again, from a region that was already in the chain
C22_ReuseAcrossCycles ==
    [][ReplayAlloc =>
          /\ sysmem' = sysmem
          /\ Len(regions') = Len(regions)
          /\ \A r \in 1..Len(regions) : regions'[r].live = regions[r].live
          /\ Chain(regions', arena') = Chain(regions, arena)
          /\ last.got[last'.i] # NULL =>
                /\ last'.ptr # NULL
                /\ RegionOf(last'.ptr) \in ChainIds(regions, arena)]_vars

\* a second cycle has been replayed in full over a chain of three regions,
\* its last request served from the third by way of the recycling walk
C22_Witness ==
    /\ last.cycle = 2
    /\ last.i = Len(last.sizes)
    /\ last.i = MaxCycleLen
    /\ Len(Chain(regions, arena)) = 3
    /\ \A k \in 1..Len(last.got) : last.got[k] # NULL
    /\ last.ptr # NULL
    /\ RegionOf(last.ptr) = Chain(regions, arena)[3].r

(***************************************************************************)
(* Properly nested checkpoints: a caller that ends only the innermost open  *)
(* checkpoint, and may call arena_alloc, arena_reset and arena_free while   *)
(* checkpoints are open.  temps is the stack of open checkpoints; held is   *)
(* the set of blocks returned by arena_alloc and not rewound since: every   *)
(* block carries the number of the call that returned it.                   *)
(***************************************************************************)
\* what arena_alloc can return once a->end points at a freed region header:
\* the header's count and capacity are indeterminate, so the call may fail,
\* hand out bytes of the freed region, or return any address at all
StaleReturns(size) ==
    {NULL, arena__align_forward(DataAddr(arena.end), ARENA_ALIGNMENT), Wild}

Block(ptr, size) == [ptr |-> ptr, size |-> size, id |-> nops]

NestedAlloc(size) ==
    /\ IF ub
       THEN /\ nops < MaxOps
            /\ nops' = nops + 1
            /\ \E ptr \in StaleReturns(size) :
                  /\ held' = IF ptr # NULL /\ size # 0
                             THEN held \cup {Block(ptr, size)} ELSE held
                  /\ last' = [last EXCEPT !.op = "arena_alloc", !.ptr = ptr]
            /\ UNCHANGED <<arena, regions, sysmem, mem, fresh, parse>>
       ELSE LET r == arena_alloc(Machine, size)
            IN  /\ Commit(r.m)
                /\ held' = IF r.ptr # NULL THEN held \cup {Block(r.ptr, size)} ELSE held
                /\ last' = [last EXCEPT !.op = "arena_alloc", !.ptr = r.ptr]
    /\ UNCHANGED <<temps, ub>>

NestedReset ==
    /\ ~ub
    /\ Commit(arena_reset(Machine))
    /\ held' = {}
    /\ last' = [last EXCEPT !.op = "arena_reset", !.ptr = NULL]
    /\ UNCHANGED <<temps, ub>>

NestedFree ==
    /\ ~ub
    /\ arena.begin # NULL
    /\ Commit(arena_free(Machine))
    /\ held' = {}
    /\ last' = [op |-> "arena_free", ptr |-> NULL, freed |-> TRUE]
    /\ UNCHANGED <<temps, ub>>

NestedTempBegin ==
    /\ ~ub
    /\ Len(temps) < MaxTemps
    /\ nops < MaxOps
    /\ nops' = nops + 1
    /\ temps' = Append(temps, [temp |-> arena_temp_begin(Machine), blocks |-> held])
    /\ last' = [last EXCEPT !.op = "arena_temp_begin", !.ptr = NULL]
    /\ UNCHANGED <<arena, regions, sysmem, mem, fresh, held, parse, ub>>

\* arena_temp_end on the innermost open checkpoint
NestedTempEnd ==
    /\ ~ub
    /\ temps # <<>>
    /\ LET t == temps[Len(temps)]
       IN  /\ IF t.temp.old_end # NULL /\ ~regions[t.temp.old_end].live
              THEN \* temp.arena->end->count = ... stores into a freed block
                   /\ arena' = [arena EXCEPT !.end = t.temp.old_end]
                   /\ nops < MaxOps
                   /\ nops' = nops + 1
                   /\ UNCHANGED <<regions, sysmem, mem, fresh, parse>>
                   /\ ub' = TRUE
              ELSE /\ Commit(arena_temp_end(Machine, t.temp))
                   /\ UNCHANGED ub
           /\ held' = held \cap t.blocks
    /\ temps' = SubSeq(temps, 1, Len(temps) - 1)
    /\ last' = [last EXCEPT !.op = "arena_temp_end", !.ptr = NULL]

InitNested ==
    /\ arena = [begin |-> NULL, end |-> NULL]
    /\ regions = <<>>
    /\ sysmem \in {1, MaxRegions}
    /\ mem = <<>>
    /\ fresh = "zero"
    /\ held = {}
    /\ parse = NoCall
    /\ temps = <<>>
    /\ last = [op |-> "arena_init", ptr |-> NULL, freed |-> FALSE]
    /\ nops = 0
    /\ ub = FALSE

NextNested ==
    \/ \E size \in AllocSizes : NestedAlloc(size)
    \/ NestedReset
    \/ NestedFree
    \/ NestedTempBegin
    \/ NestedTempEnd

SpecNested == InitNested /\ [][NextNested]_vars

\* the block lies wholly inside the data of one live region
InLiveRegion(b) ==
    /\ RegionOf(b.ptr) \in 1..Len(regions)
    /\ regions[RegionOf(b.ptr)].live
    /\ b.ptr >= DataAddr(RegionOf(b.ptr))
    /\ b.ptr + b.size <= DataAddr(RegionOf(b.ptr)) + regions[RegionOf(b.ptr)].capacity

Disjoint(b, c) == b.ptr + b.size <= c.ptr \/ c.ptr + c.size <= b.ptr

\* C23: after any sequence of arena_alloc, arena_reset and properly nested
\* checkpoint calls (no arena_free), every block arena_alloc has returned and
\* that no reset or checkpoint end has rewound since is aligned to
\* ARENA_ALIGNMENT, lies wholly inside the data of one live region, and is
\* disjoint from every other such block; every live region's used count is
\* at most its capacity
C23_AllocationWellFormed ==
    ~last.freed =>
        /\ \A r \in 1..Len(regions) :
               regions[r].live => regions[r].count <= regions[r].capacity
        /\ \A b \in held :
               /\ b.ptr % ARENA_ALIGNMENT = 0
               /\ InLiveRegion(b)
               /\ \A c \in held : c # b => Disjoint(b, c)

\* the same for the runs in which no arena_temp_end has stored through a
\* freed region
WellFormedWhileDefined ==
    (~last.freed /\ ~ub) =>
        /\ \A r \in 1..Len(regions) :
               regions[r].live => regions[r].count <= regions[r].capacity
        /\ \A b \in held :
               /\ b.ptr % ARENA_ALIGNMENT = 0
               /\ InLiveRegion(b)
               /\ \A c \in held : c # b => Disjoint(b, c)

\* C24: after any sequence of arena_alloc, arena_reset, arena_free and
\* checkpoint calls in which checkpoints are ended innermost first, the
\* arena's current region is either absent or a live region still linked
\* from the first region
C24_NoDanglingRegion ==
    arena.end # NULL =>
        /\ regions[arena.end].live
        /\ arena.end \in ChainIds(regions, arena)

(***************************************************************************)
(* Arena memory as the JSON code sees it                                   *)
(***************************************************************************)
WordSize == 8

\* json.h, LP64: JsonValue { int type; union as; }, JsonNode { key; value; next; }
SizeofJsonValue == 16
SizeofJsonNode  == 24
OffAs    == 8
OffValue == 8
OffNext  == 16

JSON_NULL   == 0
JSON_BOOL   == 1
JSON_NUMBER == 2
JSON_STRING == 3
JSON_ARRAY  == 4
JSON_OBJECT == 5


\* a const char * argument is the byte sequence it points to, without the
\* terminator; <<NULL>> stands for the null pointer, which no C string equals
NullStr == <<NULL>>

\* doubles: the double nearest to (-1)^neg * m * 10^e, or an infinity, or NaN
Dec(neg, m, e) == [c |-> "fin", neg |-> neg, m |-> m, e |-> e]
Inf(neg) == [c |-> "inf", neg |-> neg, m |-> 0, e |-> 0]
NaN == [c |-> "nan", neg |-> FALSE, m |-> 0, e |-> 0]

\* a word nobody has written since its block came from malloc
Fill(m) == [k |-> "fill", v |-> 0, z |-> m.fresh = "zero"]

\* the word at addr: what was last stored there (arena_reset and region reuse
\* leave the bytes in place), else the malloc fill.  z: all eight bytes are 0
WordAt(m, addr) == IF addr \in DOMAIN m.mem THEN m.mem[addr] ELSE Fill(m)

\* addr lies in the data[] of a region that is still malloc'ed
Mapped(m, addr) ==
    /\ addr > 0
    /\ LET r == RegionOf(addr)
       IN  /\ r \in 1..Len(m.regions)
           /\ m.regions[r].live
           /\ addr >= DataAddr(r)
           /\ addr < DataAddr(r) + m.regions[r].capacity

Store(m, addr, w) == [m EXCEPT !.mem = (addr :> w) @@ @]

\* v->type = type: four bytes, the four padding bytes keep what they held
TypeWord(m, addr, type) ==
    [k |-> "type", v |-> type, z |-> type = 0 /\ WordAt(m, addr).z]
\* v->as.boolean = b: one byte of the union
BoolWord(m, addr, b) == [k |-> "bool", v |-> b, z |-> ~b /\ WordAt(m, addr).z]
NumWord(d) == [k |-> "num", v |-> d, z |-> d = Dec(FALSE, 0, 0)]
PtrWord(p) == [k |-> "ptr", v |-> p, z |-> p = NULL]

\* a pointer-sized load
ReadPtr(m, addr) ==
    LET w == WordAt(m, addr)
    IN  IF w.k = "ptr" THEN w.v ELSE IF w.z THEN NULL ELSE Wild

\* v->type
ReadType(m, addr) ==
    LET w == WordAt(m, addr)
    IN  IF w.k = "type" THEN w.v ELSE IF w.z THEN JSON_NULL ELSE Wild

IsZero(bytes) == \A i \in 1..Len(bytes) : bytes[i] = 0

\* memcpy(addr, bytes, Len(bytes))
RECURSIVE StoreBytes(_, _, _)
StoreBytes(m, addr, bytes) ==
    IF bytes = <<>> THEN m
    ELSE LET n == IF Len(bytes) < WordSize THEN Len(bytes) ELSE WordSize
             chunk == SubSeq(bytes, 1, n)
             w == [k |-> "bytes", v |-> chunk,
                   z |-> IsZero(chunk) /\ (n = WordSize \/ WordAt(m, addr).z)]
         IN  StoreBytes(Store(m, addr, w), addr + WordSize,
                        SubSeq(bytes, n + 1, Len(bytes)))

\* the bytes of s before its first 0 byte; s itself when it has none
UpToNul(s) ==
    IF \E i \in 1..Len(s) : s[i] = 0
    THEN SubSeq(s, 1, (CHOOSE i \in 1..Len(s) :
                          s[i] = 0 /\ \A j \in 1..(i - 1) : s[j] # 0) - 1)
    ELSE s

\* the C string at addr; <<Wild>> when the bytes there are not ones the
\* program stored as characters
RECURSIVE ReadCStr(_, _)
ReadCStr(m, addr) ==
    LET w == WordAt(m, addr)
    IN  IF ~Mapped(m, addr) \/ w.k # "bytes" THEN <<Wild>>
        ELSE IF UpToNul(w.v) # w.v THEN UpToNul(w.v)
        ELSE IF Len(w.v) < WordSize THEN <<Wild>>
        ELSE LET rest == ReadCStr(m, addr + WordSize)
             IN  IF rest = <<Wild>> THEN rest ELSE w.v \o rest

\* the result of a call: machine state, returned pointer, whether the
\* allocator refused a request, whether the call ran into undefined behaviour
Ret(m, ptr, oom, wild) == [m |-> m, ptr |-> ptr, oom |-> oom, ub |-> wild]

(***************************************************************************)
(* json.c: builder                                                         *)
(***************************************************************************)
MaxBuildOps == 3    \* builder-side API calls in one run
MaxHeld     == 3    \* JsonValue pointers the caller keeps

\* v->type = type on the block the allocator returned (r), if any
SetType(r, type) ==
    IF r.ptr # NULL
    THEN Ret(Store(r.m, r.ptr, TypeWord(r.m, r.ptr, type)), r.ptr, FALSE, FALSE)
    ELSE Ret(r.m, NULL, TRUE, FALSE)

make_value(m, type) == SetType(arena_alloc(m, SizeofJsonValue), type)

json_create_null(m) == make_value(m, JSON_NULL)

\* if (v) v->as.boolean = b
SetBoolean(v, b) ==
    IF v.ptr # NULL
    THEN [v EXCEPT !.m = Store(v.m, v.ptr + OffAs, BoolWord(v.m, v.ptr + OffAs, b))]
    ELSE v

json_create_bool(m, b) == SetBoolean(make_value(m, JSON_BOOL), b)

\* if (v) v->as.number = num
SetNumber(v, num) ==
    IF v.ptr # NULL
    THEN [v EXCEPT !.m = Store(v.m, v.ptr + OffAs, NumWord(num))]
    ELSE v

json_create_number(m, num) == SetNumber(make_value(m, JSON_NUMBER), num)

\* v->as.string = c; if (!v->as.string) return NULL; memcpy(...)
CopyChars(v, c, str) ==
    IF c.ptr = NULL
    THEN Ret(Store(c.m, v.ptr + OffAs, PtrWord(NULL)), NULL, TRUE, FALSE)
    ELSE Ret(StoreBytes(Store(c.m, v.ptr + OffAs, PtrWord(c.ptr)), c.ptr,
                        Append(str, 0)),
             v.ptr, FALSE, FALSE)

\* if (!v) return NULL; ... arena_alloc_array(a, char, len + 1)
AllocChars(v, str) ==
    IF v.ptr = NULL THEN v
    ELSE CopyChars(v, arena_alloc(v.m, Len(str) + 1), str)

json_create_string(m, str) ==
    IF str = NullStr THEN Ret(m, NULL, FALSE, FALSE)
    ELSE AllocChars(make_value(m, JSON_STRING), str)

json_create_array(m) == make_value(m, JSON_ARRAY)

json_create_object(m) == make_value(m, JSON_OBJECT)

\* while (curr->next) curr = curr->next;  Wild when the walk loads from
\* memory that is not mapped, or never ends (fuel: the words written so far)
RECURSIVE LastNode(_, _, _)
LastNode(m, curr, fuel) ==
    IF ~Mapped(m, curr) THEN Wild
    ELSE IF ReadPtr(m, curr + OffNext) = NULL THEN curr
    ELSE IF fuel = 0 THEN Wild
    ELSE LastNode(m, ReadPtr(m, curr + OffNext), fuel - 1)

\* curr->next = node, curr being the last node of the list
LinkAfter(m, tail, node, oom) ==
    IF tail = Wild THEN Ret(m, node, oom, TRUE)
    ELSE Ret(Store(m, tail + OffNext, PtrWord(node)), node, oom, FALSE)

\* parent->as.list.head = node, or the node goes after the last one
LinkNode(m, parent, node, oom) ==
    IF ReadPtr(m, parent + OffAs) = NULL
    THEN Ret(Store(m, parent + OffAs, PtrWord(node)), node, oom, FALSE)
    ELSE LinkAfter(m, LastNode(m, ReadPtr(m, parent + OffAs),
                               Cardinality(DOMAIN m.mem)),
                   node, oom)

\* node->value = val; node->next = NULL; and the linking
FillNode(m, node, parent, val, oom) ==
    LinkNode(Store(Store(m, node + OffValue, PtrWord(val)),
                   node + OffNext, PtrWord(NULL)),
             parent, node, oom)

\* node->key = k; if (node->key) memcpy(node->key, key, len + 1)
KeyAllocated(node, k, parent, key, val) ==
    FillNode(IF k.ptr # NULL
             THEN StoreBytes(Store(k.m, node, PtrWord(k.ptr)), k.ptr, Append(key, 0))
             ELSE Store(k.m, node, PtrWord(NULL)),
             node, parent, val, k.ptr = NULL)

\* if (!node) return; if (key) ... else node->key = NULL
NodeAllocated(n, parent, key, val) ==
    IF n.ptr = NULL THEN Ret(n.m, NULL, TRUE, FALSE)
    ELSE IF key # NullStr
    THEN KeyAllocated(n.ptr, arena_alloc(n.m, Len(key) + 1), parent, key, val)
    ELSE FillNode(Store(n.m, n.ptr, PtrWord(NULL)), n.ptr, parent, val, FALSE)

json_list_append(m, parent, key, val) ==
    IF parent = NULL \/ val = NULL THEN Ret(m, NULL, FALSE, FALSE)
    ELSE NodeAllocated(arena_alloc(m, SizeofJsonNode), parent, key, val)

\* the value a call got from a nested json_create_* call (c), and what the
\* outer call (r) did after it
After(c, r) == [r EXCEPT !.oom = @ \/ c.oom, !.ptr = c.ptr]

json_add(m, obj, key, val) ==
    IF obj = NULL \/ key = NullStr \/ val = NULL THEN Ret(m, NULL, FALSE, FALSE)
    ELSE IF ~Mapped(m, obj) THEN Ret(m, NULL, FALSE, TRUE)
    ELSE IF ReadType(m, obj) = JSON_OBJECT THEN json_list_append(m, obj, key, val)
    ELSE Ret(m, NULL, FALSE, FALSE)

\* json_add(a, obj, key, c), c being the value of the argument expression
AddCreated(c, obj, key) == After(c, json_add(c.m, obj, key, c.ptr))

json_add_string(m, obj, key, val) ==
    IF val = NullStr THEN Ret(m, NULL, FALSE, FALSE)
    ELSE AddCreated(json_create_string(m, val), obj, key)

json_add_number(m, obj, key, val) == AddCreated(json_create_number(m, val), obj, key)

json_add_bool(m, obj, key, val) == AddCreated(json_create_bool(m, val), obj, key)

json_add_null(m, obj, key) == AddCreated(json_create_null(m), obj, key)

json_append(m, arr, val) ==
    IF arr = NULL \/ val = NULL THEN Ret(m, NULL, FALSE, FALSE)
    ELSE IF ~Mapped(m, arr) THEN Ret(m, NULL, FALSE, TRUE)
    ELSE IF ReadType(m, arr) = JSON_ARRAY THEN json_list_append(m, arr, NullStr, val)
    ELSE Ret(m, NULL, FALSE, FALSE)

\* json_append(a, arr, c), c being the value of the argument expression
AppendCreated(c, arr) == After(c, json_append(c.m, arr, c.ptr))

json_append_string(m, arr, val) ==
    IF val = NullStr THEN Ret(m, NULL, FALSE, FALSE)
    ELSE AppendCreated(json_create_string(m, val), arr)

json_append_number(m, arr, val) == AppendCreated(json_create_number(m, val), arr)

json_append_bool(m, arr, val) == AppendCreated(json_create_bool(m, val), arr)

json_append_null(m, arr) == AppendCreated(json_create_null(m), arr)

(***************************************************************************)
(* The tree as the structs in memory describe it                           *)
(***************************************************************************)
\* the nodes of a list from node on, following next; ends with Wild when a
\* next pointer leads out of mapped memory or the list never ends
RECURSIVE NodeList(_, _, _)
NodeList(m, node, fuel) ==
    IF node = NULL THEN <<>>
    ELSE IF ~Mapped(m, node) \/ fuel = 0 THEN <<Wild>>
    ELSE <<node>> \o NodeList(m, ReadPtr(m, node + OffNext), fuel - 1)

IsContainer(m, v) ==
    Mapped(m, v) /\ ReadType(m, v) \in {JSON_ARRAY, JSON_OBJECT}

\* the JsonNodes of container v, in list order
Members(m, v) == NodeList(m, ReadPtr(m, v + OffAs), Cardinality(DOMAIN m.mem))

\* node->value of every member that is a node
Kids(m, v) ==
    LET ms == Members(m, v)
    IN  [i \in 1..Len(ms) |->
            IF ms[i] = Wild THEN Wild ELSE ReadPtr(m, ms[i] + OffValue)]

(***************************************************************************)
(* Building trees: the caller creates values, attaches them, allocates     *)
(* buffers of its own in the same arena, and resets the arena              *)
(***************************************************************************)
BuildKeys    == {<<107>>}
BuildStrings == {<<115>>}
BuildNumbers == {Dec(FALSE, 1, 0)}
BuildBools   == {TRUE}
BufferSizes  == {8124, 8150}

BuildStep(r, call) ==
    /\ ~ub
    /\ Len(r.m.regions) <= MaxRegions
    /\ nops < MaxBuildOps
    /\ nops' = nops + 1
    /\ arena' = r.m.arena
    /\ regions' = r.m.regions
    /\ sysmem' = r.m.sysmem
    /\ mem' = r.m.mem
    /\ ub' = r.ub
    /\ last' = call
    /\ UNCHANGED <<fresh, temps, parse>>

\* a json_create_* call; the caller keeps the pointer it got
Created(r, op) ==
    /\ Cardinality(held) < MaxHeld
    /\ BuildStep(r, [op |-> op, ret |-> r.ptr, oom |-> r.oom])
    /\ held' = IF r.ptr # NULL THEN held \cup {r.ptr} ELSE held

JsonCreateNull == Created(json_create_null(Machine), "json_create_null")
JsonCreateBool(b) == Created(json_create_bool(Machine, b), "json_create_bool")
JsonCreateNumber(num) == Created(json_create_number(Machine, num), "json_create_number")
JsonCreateString(str) == Created(json_create_string(Machine, str), "json_create_string")
JsonCreateArray == Created(json_create_array(Machine), "json_create_array")
JsonCreateObject == Created(json_create_object(Machine), "json_create_object")

\* a json_add* / json_append* call on container parent, which returns nothing.
\* kind: the type the call requires of parent; n0: the members parent had
Attached(r, op, kind, parent, key) ==
    /\ BuildStep(r, [op |-> op, parent |-> parent, key |-> key, oom |-> r.oom,
                     applies |-> ReadType(Machine, parent) = kind,
                     n0 |-> Len(Members(Machine, parent))])
    /\ UNCHANGED held

JsonAdd(obj, key, val) ==
    Attached(json_add(Machine, obj, key, val), "json_add", JSON_OBJECT, obj, key)
JsonAddString(obj, key, val) ==
    Attached(json_add_string(Machine, obj, key, val), "json_add_string",
             JSON_OBJECT, obj, key)
JsonAddNumber(obj, key, val) ==
    Attached(json_add_number(Machine, obj, key, val), "json_add_number",
             JSON_OBJECT, obj, key)
JsonAddBool(obj, key, val) ==
    Attached(json_add_bool(Machine, obj, key, val), "json_add_bool",
             JSON_OBJECT, obj, key)
JsonAddNull(obj, key) ==
    Attached(json_add_null(Machine, obj, key), "json_add_null", JSON_OBJECT, obj, key)
JsonAppend(arr, val) ==
    Attached(json_append(Machine, arr, val), "json_append", JSON_ARRAY, arr, NullStr)
JsonAppendString(arr, val) ==
    Attached(json_append_string(Machine, arr, val), "json_append_string",
             JSON_ARRAY, arr, NullStr)
JsonAppendNumber(arr, val) ==
    Attached(json_append_number(Machine, arr, val), "json_append_number",
             JSON_ARRAY, arr, NullStr)
JsonAppendBool(arr, val) ==
    Attached(json_append_bool(Machine, arr, val), "json_append_bool",
             JSON_ARRAY, arr, NullStr)
JsonAppendNull(arr) ==
    Attached(json_append_null(Machine, arr), "json_append_null", JSON_ARRAY, arr,
             NullStr)

\* the caller's own allocation in the arena the tree lives in
Allocated(r) ==
    /\ BuildStep(Ret(r.m, r.ptr, r.ptr = NULL, FALSE),
                 [op |-> "arena_alloc", ret |-> r.ptr])
    /\ UNCHANGED held

BuildAlloc(size) == Allocated(arena_alloc(Machine, size))

\* arena_reset between two documents: every pointer into the arena is dropped
BuildReset ==
    /\ BuildStep(Ret(arena_reset(Machine), NULL, FALSE, FALSE), [op |-> "arena_reset"])
    /\ held' = {}

InitBuild ==
    /\ arena = [begin |-> NULL, end |-> NULL]
    /\ regions = <<>>
    /\ sysmem \in {0, 1, MaxRegions}
    /\ mem = <<>>
    /\ fresh \in {"zero", "junk"}
    /\ held = {}
    /\ parse = NoCall
    /\ temps = <<>>
    /\ last = [op |-> "arena_init"]
    /\ nops = 0
    /\ ub = FALSE

NextBuild ==
    \/ JsonCreateNull
    \/ \E b \in BuildBools : JsonCreateBool(b)
    \/ \E num \in BuildNumbers : JsonCreateNumber(num)
    \/ \E str \in BuildStrings : JsonCreateString(str)
    \/ JsonCreateArray
    \/ JsonCreateObject
    \/ \E obj \in held, key \in BuildKeys, val \in held : JsonAdd(obj, key, val)
    \/ \E obj \in held, key \in BuildKeys, val \in BuildStrings :
          JsonAddString(obj, key, val)
    \/ \E obj \in held, key \in BuildKeys, val \in BuildNumbers :
          JsonAddNumber(obj, key, val)
    \/ \E obj \in held, key \in BuildKeys, val \in BuildBools : JsonAddBool(obj, key, val)
    \/ \E obj \in held, key \in BuildKeys : JsonAddNull(obj, key)
    \/ \E arr \in held, val \in held : JsonAppend(arr, val)
    \/ \E arr \in held, val \in BuildStrings : JsonAppendString(arr, val)
    \/ \E arr \in held, val \in BuildNumbers : JsonAppendNumber(arr, val)
    \/ \E arr \in held, val \in BuildBools : JsonAppendBool(arr, val)
    \/ \E arr \in held : JsonAppendNull(arr)
    \/ \E size \in BufferSizes : BuildAlloc(size)
    \/ BuildReset

SpecBuild == InitBuild /\ [][NextBuild]_vars

(***************************************************************************)
(* Builder claims                                                          *)
(***************************************************************************)
\* C2: the container json_create_array / json_create_object returns has no
\* members (as.list.head is NULL), whatever the region it was carved from
\* held before arena_reset -- here even with malloc handing out zeroed blocks
C2_NewContainerIsEmpty ==
    (/\ last.op \in {"json_create_array", "json_create_object"}
     /\ last.ret # NULL
     /\ fresh = "zero")
        => ReadPtr(Machine, last.ret + OffAs) = NULL

AddOps == {"json_add", "json_add_string", "json_add_number", "json_add_bool",
           "json_add_null", "json_append", "json_append_string",
           "json_append_number", "json_append_bool", "json_append_null"}

\* C5: a json_add* call on an Object (json_append* on an Array) that returns
\* normally has attached one more member, and with json_add* the member's
\* key is present: an allocation that fails inside the call is not dropped
C5_AddAttachesMember ==
    (last.op \in AddOps /\ last.applies /\ ~ub)
        => LET ms == Members(Machine, last.parent)
           IN  /\ Len(ms) = last.n0 + 1
               /\ ms[Len(ms)] # Wild
               /\ last.key # NullStr => ReadPtr(Machine, ms[Len(ms)]) # NULL

\* the containers among the values the caller holds
Containers == {v \in held : IsContainer(Machine, v)}

ChildSet(v) == {Kids(Machine, v)[i] : i \in 1..Len(Kids(Machine, v))}

\* the values reachable from the values in S in at most fuel more steps
RECURSIVE Descend(_, _)
Descend(S, fuel) ==
    IF fuel = 0 THEN S
    ELSE Descend(S \cup UNION {ChildSet(v) : v \in S \cap Containers}, fuel - 1)

Descendants(v) == Descend(ChildSet(v), Cardinality(held))

\* a member slot: container and position in its list
Slots == {<<p, i>> : p \in Containers, i \in 1..MaxBuildOps} \cap
         UNION {{<<p, i>> : i \in 1..Len(Kids(Machine, p))} : p \in Containers}

\* C6: after any builder calls the tree is acyclic (no value is reachable
\* from itself) and unshared (no value fills two member slots)
C6_TreeAcyclicUnshared ==
    ~ub => /\ \A v \in Containers : v \notin Descendants(v)
           /\ \A s, t \in Slots :
                 s # t => Kids(Machine, s[1])[s[2]] # Kids(Machine, t[1])[t[2]]

(***************************************************************************)
(* json.c: parser.  Bytes are numbers 0..255.  x is the state a parser     *)
(* function works on: [m |-> machine, p |-> the json_parse call].  The     *)
(* call p holds the arguments (input, len, err), the bytes that lie in     *)
(* memory after input[len - 1] (tail), the ParseState (curr as an offset   *)
(* from start, line, col), and the return value of the function that ran   *)
(* last (ok, str, num).  oob records a load from input[i] with i >= len,   *)
(* oom a refused allocation.                                               *)
(***************************************************************************)
MAX_JSON_DEPTH == 1000

Ch == [bs |-> 8, tab |-> 9, nl |-> 10, ff |-> 12, cr |-> 13, space |-> 32,
       quote |-> 34, plus |-> 43, comma |-> 44, minus |-> 45, dot |-> 46,
       slash |-> 47, zero |-> 48, colon |-> 58, E |-> 69, X |-> 88,
       lbracket |-> 91, backslash |-> 92, rbracket |-> 93, b |-> 98, e |-> 101,
       f |-> 102, n |-> 110, r |-> 114, t |-> 116, u |-> 117, x |-> 120,
       lbrace |-> 123, rbrace |-> 125]

LitTrue  == <<116, 114, 117, 101>>
LitFalse == <<102, 97, 108, 115, 101>>
LitNull  == <<110, 117, 108, 108>>

isdigit(c) == c \in 48..57

\* the byte at start + i; past the tail memory holds zeros
Byte(p, i) ==
    IF i < p.len THEN p.input[i + 1]
    ELSE IF i - p.len < Len(p.tail) THEN p.tail[i - p.len + 1]
    ELSE 0

\* *s->curr
Cur(p) == Byte(p, p.curr)

\* s->curr < s->end
More(p) == p.curr < p.len

\* the program loads the byte at start + i
Load(x, i) == IF i >= x.p.len THEN [x EXCEPT !.p.oob = TRUE] ELSE x

set_error(x, msg) ==
    [x EXCEPT !.p.err = [msg |-> msg, line |-> x.p.line, col |-> x.p.col,
                         offset |-> x.p.curr]]

\* advance_fast without the store to s->col
advance_fast_keeps_col(p, n) == [p EXCEPT !.curr = @ + n]

advance_fast(p, n) == [p EXCEPT !.curr = @ + n, !.col = @ + n]

RECURSIVE advance(_, _)
advance(p, n) ==
    IF n = 0 \/ p.curr >= p.len THEN p
    ELSE IF Cur(p) = Ch.nl
    THEN advance([p EXCEPT !.line = @ + 1, !.col = 1, !.curr = @ + 1], n - 1)
    ELSE advance([p EXCEPT !.col = @ + 1, !.curr = @ + 1], n - 1)

RECURSIVE skip_whitespace(_)
skip_whitespace(p) ==
    IF ~More(p) THEN p
    ELSE IF Cur(p) \in {Ch.space, Ch.tab, Ch.cr}
    THEN skip_whitespace([p EXCEPT !.curr = @ + 1, !.col = @ + 1])
    ELSE IF Cur(p) = Ch.nl
    THEN skip_whitespace([p EXCEPT !.curr = @ + 1, !.line = @ + 1, !.col = 1])
    ELSE p

Advance(x, n) == [x EXCEPT !.p = advance(@, n)]
SkipWhitespace(x) == [x EXCEPT !.p = skip_whitespace(@)]

\* return false / return true of a bool parser function
False(x) == [x EXCEPT !.p.ok = FALSE]
True(x) == [x EXCEPT !.p.ok = TRUE]

\* the machine after an allocator call r
Took(x, r) == [x EXCEPT !.m = r.m, !.p.oom = @ \/ r.ptr = NULL]

(***************************************************************************)
(* parse_string                                                            *)
(***************************************************************************)
\* the first loop: where the closing quote is and whether a backslash
\* occurs; msg is the error it stops with
RECURSIVE ScanString(_, _, _)
ScanString(p, scan, esc) ==
    IF scan >= p.len THEN [msg |-> "Unterminated string", scan |-> scan, esc |-> esc]
    ELSE IF Byte(p, scan) = Ch.quote THEN [msg |-> "", scan |-> scan, esc |-> esc]
    ELSE IF Byte(p, scan) = Ch.backslash
    THEN IF scan + 1 >= p.len
         THEN [msg |-> "Unterminated escape", scan |-> scan, esc |-> TRUE]
         ELSE ScanString(p, scan + 2, TRUE)
    ELSE IF Byte(p, scan) < 32
    THEN [msg |-> "Control character in string", scan |-> scan, esc |-> esc]
    ELSE ScanString(p, scan + 1, esc)

HexVal(c) ==
    IF c \in 48..57 THEN c - 48
    ELSE IF c \in 97..102 THEN c - 97 + 10
    ELSE IF c \in 65..70 THEN c - 65 + 10
    ELSE -1

\* the for loop of case 'u': i is p before the loop's p++, k the digits done
RECURSIVE UnicodeEscape(_, _, _, _, _)
UnicodeEscape(p, i, scan, k, codepoint) ==
    IF k = 4 THEN [msg |-> "", codepoint |-> codepoint]
    ELSE IF i + 1 >= scan THEN [msg |-> "Invalid unicode escape", codepoint |-> 0]
    ELSE IF HexVal(Byte(p, i + 1)) < 0
    THEN [msg |-> "Invalid unicode escape character", codepoint |-> 0]
    ELSE UnicodeEscape(p, i + 1, scan, k + 1, codepoint * 16 + HexVal(Byte(p, i + 1)))

Utf8(codepoint) ==
    IF codepoint <= 127 THEN <<codepoint>>
    ELSE IF codepoint <= 2047
    THEN <<192 + (codepoint \div 64), 128 + (codepoint % 64)>>
    ELSE <<224 + (codepoint \div 4096), 128 + ((codepoint \div 64) % 64),
           128 + (codepoint % 64)>>

SimpleEscapes ==
    (Ch.quote :> Ch.quote) @@ (Ch.backslash :> Ch.backslash) @@
    (Ch.slash :> Ch.slash) @@ (Ch.b :> Ch.bs) @@ (Ch.f :> Ch.ff) @@
    (Ch.n :> Ch.nl) @@ (Ch.r :> Ch.cr) @@ (Ch.t :> Ch.tab)

\* the second loop as it would be if every escape stood for the character
\* after the backslash
RECURSIVE DecodeAnyEscape(_, _, _, _)
DecodeAnyEscape(p, i, scan, out) ==
    IF i >= scan THEN [msg |-> "", out |-> out]
    ELSE IF Byte(p, i) # Ch.backslash
    THEN DecodeAnyEscape(p, i + 1, scan, Append(out, Byte(p, i)))
    ELSE DecodeAnyEscape(p, i + 2, scan, Append(out, Byte(p, i + 1)))

\* the second loop, from p = start + i on: the bytes written through out,
\* and the error it stops with
RECURSIVE Decode(_, _, _, _)
DecodeUnicode(p, i, scan, out, u) ==
    IF u.msg # "" THEN [msg |-> u.msg, out |-> out]
    ELSE Decode(p, i + 6, scan, out \o Utf8(u.codepoint))

Decode(p, i, scan, out) ==
    IF i >= scan THEN [msg |-> "", out |-> out]
    ELSE IF Byte(p, i) # Ch.backslash
    THEN Decode(p, i + 1, scan, Append(out, Byte(p, i)))
    ELSE IF Byte(p, i + 1) \in DOMAIN SimpleEscapes
    THEN Decode(p, i + 2, scan, Append(out, SimpleEscapes[Byte(p, i + 1)]))
    ELSE IF Byte(p, i + 1) = Ch.u
    THEN DecodeUnicode(p, i, scan, out, UnicodeEscape(p, i + 1, scan, 0, 0))
    ELSE [msg |-> "Invalid escape sequence", out |-> out]

\* input[from .. to - 1]
Slice(p, from, to) == [j \in 1..(to - from) |-> Byte(p, from + j - 1)]

\* the escape path after its loop; str is the buffer, d what Decode found
StringDecoded(x, sc, str, d) ==
    IF d.msg # ""
    THEN False(set_error([x EXCEPT !.m = StoreBytes(@, str, d.out)], d.msg))
    ELSE True([x EXCEPT !.m = StoreBytes(@, str, Append(d.out, 0)),
                        !.p = advance([@ EXCEPT !.str = str], sc.scan - x.p.curr + 1)])

\* from the allocation of str on; a is what arena_alloc_array returned
StringAllocated(x, sc, a) ==
    IF a.ptr = NULL THEN False(Took(x, a))
    ELSE IF ~sc.esc
    THEN True([Took(x, a) EXCEPT
                 !.m = StoreBytes(@, a.ptr, Append(Slice(x.p, x.p.curr, sc.scan), 0)),
                 !.p = advance_fast([@ EXCEPT !.str = a.ptr], sc.scan - x.p.curr + 1)])
    ELSE StringDecoded(Took(x, a), sc, a.ptr, Decode(x.p, x.p.curr, sc.scan, <<>>))

\* from the end of the first loop on
StringScanned(x, sc) ==
    IF sc.msg # "" THEN False(set_error(x, sc.msg))
    ELSE StringAllocated(x, sc, arena_alloc(x.m, sc.scan - x.p.curr + 1))

\* after advance(s, 1)
StringOpened(x) == StringScanned(x, ScanString(x.p, x.p.curr, FALSE))

\* x.p.ok: the return value; x.p.str: *out_str
parse_string(x) == StringOpened(Advance(x, 1))

(***************************************************************************)
(* parse_number.  The doubles of the model are those a decimal numeral of  *)
(* a few digits denotes; the arithmetic of the fast path is exact on them. *)
(***************************************************************************)
\* the canonical form of (-1)^neg * m * 10^e
RECURSIVE Norm(_, _, _)
Norm(neg, m, e) ==
    IF m = 0 THEN Dec(neg, 0, 0)
    ELSE IF m % 10 = 0 THEN Norm(neg, m \div 10, e + 1)
    ELSE Dec(neg, m, e)

RECURSIVE NDigits(_)
NDigits(m) == IF m < 10 THEN 1 ELSE 1 + NDigits(m \div 10)

\* what a decimal numeral converts to: HUGE_VAL past DBL_MAX, zero below the
\* smallest subnormal
Round(neg, m, e) ==
    IF m = 0 THEN Dec(neg, 0, 0)
    ELSE IF NDigits(m) + e - 1 > 308 THEN Inf(neg)
    ELSE IF NDigits(m) + e - 1 < -324 THEN Dec(neg, 0, 0)
    ELSE Norm(neg, m, e)

\* while (p < end && isdigit(*p)) p++
RECURSIVE DigitsEnd(_, _)
DigitsEnd(p, i) ==
    IF i < p.len /\ isdigit(Byte(p, i)) THEN DigitsEnd(p, i + 1) ELSE i

\* acc * 10^(to - i) + the number the digits at [i, to) spell
RECURSIVE DecimalValue(_, _, _, _)
DecimalValue(p, i, to, acc) ==
    IF i >= to THEN acc
    ELSE DecimalValue(p, i + 1, to, acc * 10 + (Byte(p, i) - Ch.zero))

\* is_valid_json_number from the exponent on
ValidExponent(p, i) ==
    IF i < p.len /\ Byte(p, i) \in {Ch.e, Ch.E}
    THEN IF i + 1 < p.len /\ Byte(p, i + 1) \in {Ch.plus, Ch.minus}
         THEN i + 2 < p.len /\ isdigit(Byte(p, i + 2))
         ELSE i + 1 < p.len /\ isdigit(Byte(p, i + 1))
    ELSE TRUE

\* is_valid_json_number from the fraction on
ValidFraction(p, i) ==
    IF i < p.len /\ Byte(p, i) = Ch.dot
    THEN /\ i + 1 < p.len
         /\ isdigit(Byte(p, i + 1))
         /\ ValidExponent(p, DigitsEnd(p, i + 1))
    ELSE ValidExponent(p, i)

\* is_valid_json_number after the sign
ValidInteger(p, i) ==
    IF i >= p.len THEN FALSE
    ELSE IF Byte(p, i) = Ch.zero
    THEN /\ ~(i + 1 < p.len /\ Byte(p, i + 1) \in {Ch.x, Ch.X})
         /\ ~(i + 1 < p.len /\ isdigit(Byte(p, i + 1)))
         /\ ValidFraction(p, i + 1)
    ELSE IF isdigit(Byte(p, i)) THEN ValidFraction(p, DigitsEnd(p, i))
    ELSE FALSE

\* is_valid_json_number without the two tests on what follows a leading '0'
is_valid_json_number_any_digits(p, cursor) ==
    ValidFraction(p, DigitsEnd(p, IF cursor < p.len /\ Byte(p, cursor) = Ch.minus
                                  THEN cursor + 1 ELSE cursor))

is_valid_json_number(p, cursor) ==
    ValidInteger(p, IF cursor < p.len /\ Byte(p, cursor) = Ch.minus
                    THEN cursor + 1 ELSE cursor)

\* strtod knows no end: it stops at the first byte that cannot go on
RECURSIVE StrtodDigitsEnd(_, _)
StrtodDigitsEnd(p, i) == IF isdigit(Byte(p, i)) THEN StrtodDigitsEnd(p, i + 1) ELSE i

RECURSIVE StrtodHexEnd(_, _)
StrtodHexEnd(p, i) == IF HexVal(Byte(p, i)) >= 0 THEN StrtodHexEnd(p, i + 1) ELSE i

RECURSIVE HexValue(_, _, _, _)
HexValue(p, i, to, acc) ==
    IF i >= to THEN acc ELSE HexValue(p, i + 1, to, acc * 16 + HexVal(Byte(p, i)))

\* the exponent part at offset b, after a mantissa m with nfrac fraction digits
StrtodExponent(p, neg, m, nfrac, b, d) ==
    IF Byte(p, b) \in {Ch.e, Ch.E} /\ isdigit(Byte(p, d))
    THEN [num |-> Round(neg, m,
                        (IF Byte(p, b + 1) = Ch.minus
                         THEN 0 - DecimalValue(p, d, StrtodDigitsEnd(p, d), 0)
                         ELSE DecimalValue(p, d, StrtodDigitsEnd(p, d), 0)) - nfrac),
          endptr |-> StrtodDigitsEnd(p, d)]
    ELSE [num |-> Round(neg, m, 0 - nfrac), endptr |-> b]

\* the fraction part: a is the end of the integer digits, b the end of the
\* fraction digits when a is a decimal point
StrtodFraction(p, neg, i, a, b) ==
    IF Byte(p, a) = Ch.dot
    THEN StrtodExponent(p, neg, DecimalValue(p, a + 1, b, DecimalValue(p, i, a, 0)),
                        b - (a + 1), b,
                        IF Byte(p, b + 1) \in {Ch.plus, Ch.minus} THEN b + 2 ELSE b + 1)
    ELSE StrtodExponent(p, neg, DecimalValue(p, i, a, 0), 0, a,
                        IF Byte(p, a + 1) \in {Ch.plus, Ch.minus} THEN a + 2 ELSE a + 1)

\* the digits at offset i, after the sign: a hexadecimal integer after 0x,
\* else a decimal numeral
StrtodUnsigned(p, neg, i) ==
    IF /\ Byte(p, i) = Ch.zero
       /\ Byte(p, i + 1) \in {Ch.x, Ch.X}
       /\ HexVal(Byte(p, i + 2)) >= 0
    THEN [num |-> Norm(neg, HexValue(p, i + 2, StrtodHexEnd(p, i + 2), 0), 0),
          endptr |-> StrtodHexEnd(p, i + 2)]
    ELSE StrtodFraction(p, neg, i, StrtodDigitsEnd(p, i),
                        StrtodDigitsEnd(p, StrtodDigitsEnd(p, i) + 1))

\* strtod(start + cursor, &endptr) on a numeral that starts with '-' or a digit
strtod(p, cursor) ==
    IF Byte(p, cursor) = Ch.minus THEN StrtodUnsigned(p, TRUE, cursor + 1)
    ELSE StrtodUnsigned(p, FALSE, cursor)

\* *out_num = strtod(...); advance(s, len).  strtod has loaded the byte at endptr
Converted(x, r) ==
    True(Load([x EXCEPT !.p = advance([@ EXCEPT !.num = r.num], r.endptr - x.p.curr)],
              r.endptr))

\* USE_STRTOD:
UseStrtod(x) ==
    IF ~is_valid_json_number(x.p, x.p.curr)
    THEN False(set_error(x, "Invalid number format"))
    ELSE Converted(x, strtod(x.p, x.p.curr))

\* after the loop over the digits at [start, j).  The numerals of the model
\* have fewer than ten digits, which fast_val = fast_val * 10 + digit
\* accumulates without rounding
FastPath(x, neg, start, j) ==
    IF j = x.p.len \/ Byte(x.p, j) \notin {Ch.dot, Ch.e, Ch.E}
    THEN IF j = start THEN UseStrtod(x)
         ELSE True([x EXCEPT !.p = advance_fast(
                       [@ EXCEPT !.num = Norm(neg, DecimalValue(x.p, start, j, 0), 0)],
                       j - x.p.curr)])
    ELSE UseStrtod(x)

\* after the sign: p = start + i
NumberSigned(x, neg, i) ==
    IF i < x.p.len /\ Byte(x.p, i) = Ch.zero THEN UseStrtod(x)
    ELSE FastPath(x, neg, i, DigitsEnd(x.p, i))

\* x.p.ok: the return value; x.p.num: *out_num
parse_number(x) ==
    IF More(x.p) /\ Cur(x.p) = Ch.minus THEN NumberSigned(x, TRUE, x.p.curr + 1)
    ELSE NumberSigned(x, FALSE, x.p.curr)

(***************************************************************************)
(* parse_element, parse_array, parse_object.  The C functions recurse; here *)
(* a parse_array / parse_object call that is waiting for parse_element is   *)
(* a frame on x.p.stack: its container (val), its tail pointer, its depth   *)
(* and, in an object, the key it has parsed.                               *)
(***************************************************************************)
Top(x) == x.p.stack[Len(x.p.stack)]
Push(x, frame) == [x EXCEPT !.p.stack = Append(@, frame)]
Pop(x) == [x EXCEPT !.p.stack = SubSeq(@, 1, Len(@) - 1)]

\* parse_element returns true with *out_val = v
Returned(x, v) == [x EXCEPT !.p.pc = "returned", !.p.elem = v]

\* a parser function returns false: so does each of its callers, and
\* json_parse returns NULL
Failed(x) == [x EXCEPT !.p.pc = "done", !.p.ret = NULL, !.p.stack = <<>>]

\* the next parse_element call, from the loop of the frame on top
Descend1(x) == [x EXCEPT !.p.pc = "element", !.p.depth = Top(x).depth + 1]

\* node->value = elem; node->next = NULL; *tail = node; tail = &node->next
Link(x, node) ==
    [x EXCEPT !.m = Store(Store(Store(@, node + OffValue, PtrWord(x.p.elem)),
                                node + OffNext, PtrWord(NULL)),
                          Top(x).tail, PtrWord(node)),
              !.p.stack[Len(x.p.stack)].tail = node + OffNext]

\* the load of *s->curr
LoadCur(x) == Load(x, x.p.curr)

\* while (s->curr < s->end) { ... parse_element(a, s, &elem, depth + 1)
ArrayLoop(x) ==
    IF More(x.p) THEN Descend1(x) ELSE Failed(set_error(x, "Unclosed array"))

\* a parse_array that takes the closing bracket after a comma for the end of
\* the array
ArrayCommaLenient(x) ==
    IF More(x.p) /\ Cur(x.p) = Ch.rbracket
    THEN Returned(Pop(Advance(x, 1)), Top(x).val)
    ELSE ArrayLoop(x)

\* after the comma: advance, skip_whitespace, if (*s->curr == ']')
ArrayComma(x) ==
    IF Cur(x.p) = Ch.rbracket THEN Failed(set_error(x, "Trailing comma in array"))
    ELSE ArrayLoop(x)

\* after the node is linked and skip_whitespace
ArrayLinked(x) ==
    IF ~More(x.p) THEN Failed(set_error(x, "Unexpected end of input in array"))
    ELSE IF Cur(x.p) = Ch.rbracket THEN Returned(Pop(Advance(x, 1)), Top(x).val)
    ELSE IF Cur(x.p) = Ch.comma THEN ArrayComma(LoadCur(SkipWhitespace(Advance(x, 1))))
    ELSE Failed(set_error(x, "Expected ',' or ']'"))

\* n: what arena_alloc_struct(a, JsonNode) returned.  node->key is not written
ArrayNode(x, n) ==
    IF n.ptr = NULL THEN Failed(Took(x, n))
    ELSE ArrayLinked(SkipWhitespace(Link(Took(x, n), n.ptr)))

\* parse_array from the return of parse_element (true) to the next call of
\* parse_element or to its own return
ArrayMember(x) == ArrayNode(x, arena_alloc(x.m, SizeofJsonNode))

\* after advance(s, 1); skip_whitespace(s)
ArrayOpened(x, arr) ==
    IF More(x.p) /\ Cur(x.p) = Ch.rbracket THEN Returned(Advance(x, 1), arr)
    ELSE ArrayLoop(Push(x, [fn |-> "parse_array", val |-> arr, tail |-> arr + OffAs,
                            depth |-> x.p.depth, key |-> NULL]))

\* up to the first call of parse_element, or to its return
parse_array(x, arr) ==
    IF x.p.depth > MAX_JSON_DEPTH
    THEN Failed(set_error(x, "Maximum JSON depth exceeded"))
    ELSE ArrayOpened(SkipWhitespace(Advance(x, 1)), arr)

\* after skip_whitespace behind the key
ObjectColon(x) ==
    IF ~More(x.p) \/ Cur(x.p) # Ch.colon
    THEN Failed(set_error(x, "Expected ':' after key"))
    ELSE Descend1(Advance(x, 1))

\* after parse_string(a, s, &key)
ObjectKey(x) ==
    IF ~x.p.ok THEN Failed(x)
    ELSE ObjectColon(SkipWhitespace([x EXCEPT !.p.stack[Len(x.p.stack)].key = x.p.str]))

\* while (s->curr < s->end) { if (*s->curr != '"') ...
ObjectLoop(x) ==
    IF ~More(x.p) THEN Failed(set_error(x, "Unclosed object"))
    ELSE IF Cur(x.p) # Ch.quote THEN Failed(set_error(x, "Expected string key"))
    ELSE ObjectKey(parse_string(x))

\* after the comma: advance, skip_whitespace, if (*s->curr == '}')
ObjectComma(x) ==
    IF Cur(x.p) = Ch.rbrace THEN Failed(set_error(x, "Trailing comma in object"))
    ELSE ObjectLoop(x)

ObjectLinked(x) ==
    IF ~More(x.p) THEN Failed(set_error(x, "Unexpected end of input in object"))
    ELSE IF Cur(x.p) = Ch.rbrace THEN Returned(Pop(Advance(x, 1)), Top(x).val)
    ELSE IF Cur(x.p) = Ch.comma THEN ObjectComma(LoadCur(SkipWhitespace(Advance(x, 1))))
    ELSE Failed(set_error(x, "Expected ',' or '}'"))

\* node->key = key, and the rest as in an array
ObjectNode(x, n) ==
    IF n.ptr = NULL THEN Failed(Took(x, n))
    ELSE ObjectLinked(SkipWhitespace(
             Link([Took(x, n) EXCEPT !.m = Store(@, n.ptr, PtrWord(Top(x).key))],
                  n.ptr)))

ObjectMember(x) == ObjectNode(x, arena_alloc(x.m, SizeofJsonNode))

ObjectOpened(x, obj) ==
    IF More(x.p) /\ Cur(x.p) = Ch.rbrace THEN Returned(Advance(x, 1), obj)
    ELSE ObjectLoop(Push(x, [fn |-> "parse_object", val |-> obj, tail |-> obj + OffAs,
                             depth |-> x.p.depth, key |-> NULL]))

parse_object(x, obj) ==
    IF x.p.depth > MAX_JSON_DEPTH
    THEN Failed(set_error(x, "Maximum JSON depth exceeded"))
    ELSE ObjectOpened(SkipWhitespace(Advance(x, 1)), obj)

\* strncmp(s->curr, lit, Len(lit)) == 0
RECURSIVE MatchLen(_, _, _)
MatchLen(p, lit, k) ==
    IF k < Len(lit) /\ Byte(p, p.curr + k) = lit[k + 1] THEN MatchLen(p, lit, k + 1)
    ELSE k

Matches(p, lit) == MatchLen(p, lit, 0) = Len(lit)

\* strncmp loads the bytes from s->curr up to the first that differs
Strncmp(x, lit) ==
    Load(x, x.p.curr + (IF Matches(x.p, lit) THEN Len(lit) - 1
                        ELSE MatchLen(x.p, lit, 0)))

\* the branches of parse_element after make_value returned v
ElementString(x, v) ==
    IF ~x.p.ok THEN Failed(x)
    ELSE Returned([x EXCEPT !.m = Store(@, v + OffAs, PtrWord(x.p.str))], v)

ElementNumber(x, v) ==
    IF ~x.p.ok THEN Failed(x)
    ELSE Returned([x EXCEPT !.m = Store(@, v + OffAs, NumWord(x.p.num))], v)

ElementBool(x, v, b, n) ==
    Returned(Advance([x EXCEPT !.m = Store(@, v + OffAs, BoolWord(@, v + OffAs, b))], n),
             v)

\* *out_val = make_value(a, type) (r); if (!*out_val) return false; ...
ElementMade(x, r, type) ==
    IF r.ptr = NULL THEN Failed(Took(x, r))
    ELSE IF type = JSON_STRING THEN ElementString(parse_string(Took(x, r)), r.ptr)
    ELSE IF type = JSON_ARRAY THEN parse_array(Took(x, r), r.ptr)
    ELSE IF type = JSON_OBJECT THEN parse_object(Took(x, r), r.ptr)
    ELSE IF type = JSON_NUMBER THEN ElementNumber(parse_number(Took(x, r)), r.ptr)
    ELSE IF type = JSON_BOOL
    THEN ElementBool(Took(x, r), r.ptr, Matches(x.p, LitTrue),
                     IF Matches(x.p, LitTrue) THEN Len(LitTrue) ELSE Len(LitFalse))
    ELSE Returned(Advance(Took(x, r), Len(LitNull)), r.ptr)

\* else if (strncmp(s->curr, "null", 4) == 0) ... set_error ... return false
ElementNull(x) ==
    IF Matches(x.p, LitNull) THEN ElementMade(x, make_value(x.m, JSON_NULL), JSON_NULL)
    ELSE Failed(set_error(x, "Unexpected character '%c'"))

ElementFalse(x) ==
    IF Matches(x.p, LitFalse) THEN ElementMade(x, make_value(x.m, JSON_BOOL), JSON_BOOL)
    ELSE ElementNull(Strncmp(x, LitNull))

ElementTrue(x) ==
    IF Matches(x.p, LitTrue) THEN ElementMade(x, make_value(x.m, JSON_BOOL), JSON_BOOL)
    ELSE ElementFalse(Strncmp(x, LitFalse))

\* after skip_whitespace
ElementAt(x) ==
    IF ~More(x.p) THEN Failed(set_error(x, "Unexpected end of input"))
    ELSE IF Cur(x.p) = Ch.quote
    THEN ElementMade(x, make_value(x.m, JSON_STRING), JSON_STRING)
    ELSE IF Cur(x.p) = Ch.lbracket
    THEN ElementMade(x, make_value(x.m, JSON_ARRAY), JSON_ARRAY)
    ELSE IF Cur(x.p) = Ch.lbrace
    THEN ElementMade(x, make_value(x.m, JSON_OBJECT), JSON_OBJECT)
    ELSE IF isdigit(Cur(x.p)) \/ Cur(x.p) = Ch.minus
    THEN ElementMade(x, make_value(x.m, JSON_NUMBER), JSON_NUMBER)
    ELSE ElementTrue(Strncmp(x, LitTrue))

\* parse_element(a, s, out_val, x.p.depth) up to its return or to the next
\* call of parse_element
parse_element(x) == ElementAt(SkipWhitespace(x))

(***************************************************************************)
(* json_parse                                                              *)
(***************************************************************************)
\* the caller's JsonError err = {0}, and what memset(err, 0, ...) leaves
ZeroError == [msg |-> "", line |-> 0, col |-> 0, offset |-> 0]

\* the call json_parse(a, input, Len(input), &err) at its first parse_element;
\* rootEnd: where s->curr stood when the root value had been parsed
Call(input) ==
    [pc |-> "element", input |-> input, len |-> Len(input), tail |-> <<>>,
     curr |-> 0, line |-> 1, col |-> 1, err |-> ZeroError, stack |-> <<>>,
     depth |-> 0, elem |-> NULL, ok |-> TRUE, str |-> NULL,
     num |-> Dec(FALSE, 0, 0), oob |-> FALSE, oom |-> FALSE, ret |-> NULL,
     rootEnd |-> -1]

\* json_parse up to the call of parse_element: if (len == 0) return NULL
\* comes before the memset of err
json_parse(input) ==
    IF Len(input) = 0 THEN [Call(input) EXCEPT !.pc = "done"] ELSE Call(input)

\* json_parse as it would be without the test s.curr != s.end: root is returned
\* whatever follows it
RootUnchecked(x) == [x EXCEPT !.p.pc = "done", !.p.ret = x.p.elem]

\* if (s.curr != s.end) { set_error(...); return NULL; } return root;
RootChecked(x) ==
    IF x.p.curr # x.p.len
    THEN [set_error(x, "Unexpected garbage after JSON data") EXCEPT
             !.p.pc = "done", !.p.ret = NULL]
    ELSE [x EXCEPT !.p.pc = "done", !.p.ret = x.p.elem]

\* json_parse from the return of parse_element (true) on
json_parse_root(x) == RootChecked(SkipWhitespace([x EXCEPT !.p.rootEnd = x.p.curr]))

(***************************************************************************)
(* Parsing: one json_parse call on an arena                                *)
(***************************************************************************)
MaxLen == 2     \* length of the inputs that are enumerated exhaustively

Alphabet == {Ch.lbracket, Ch.rbracket, Ch.lbrace, Ch.rbrace, Ch.comma, Ch.colon,
             Ch.quote, Ch.backslash, Ch.space, Ch.nl, Ch.zero, Ch.zero + 1,
             Ch.minus, Ch.dot, Ch.e, Ch.t, Ch.n}

ShortInputs == UNION {[1..k -> Alphabet] : k \in 0..MaxLen}

\* documents, and every prefix of each
Documents == {
    \* {"k":1}
    <<123, 34, 107, 34, 58, 49, 125>>,
    \* {"a":[true,false,null],"b":{}}
    <<123, 34, 97, 34, 58, 91, 116, 114, 117, 101, 44, 102, 97, 108, 115, 101, 44, 110, 117, 108, 108, 93, 44, 34, 98, 34, 58, 123, 125, 125>>,
    \* [1,2]
    <<91, 49, 44, 50, 93>>,
    \* [ "x\n" , -2.5e1 ]<LF> 
    <<91, 32, 34, 120, 92, 110, 34, 32, 44, 32, 45, 50, 46, 53, 101, 49, 32, 93, 10, 32>>,
    \* "\u00e9\u0041"
    <<34, 92, 117, 48, 48, 101, 57, 92, 117, 48, 48, 52, 49, 34>>,
    \* 1e999
    <<49, 101, 57, 57, 57>>,
    \* {"k":"v",}
    <<123, 34, 107, 34, 58, 34, 118, 34, 44, 125>>,
    \* [0.25, 10]
    <<91, 48, 46, 50, 53, 44, 32, 49, 48, 93>>,
    \*  null x
    <<32, 110, 117, 108, 108, 32, 120>>,
    \* "a\q"
    <<34, 97, 92, 113, 34>>,
    \* -0
    <<45, 48>>,
    \* [[],{}]
    <<91, 91, 93, 44, 123, 125, 93>>,
    \* {}<TAB><CR><LF> 
    <<123, 125, 9, 13, 10, 32>>,
    \* true<CR>false
    <<116, 114, 117, 101, 13, 102, 97, 108, 115, 101>>,
    \* [1]<TAB>,
    <<91, 49, 93, 9, 44>>,
    \* 0.1
    <<48, 46, 49>>,
    \* "a" "b"
    <<34, 97, 34, 32, 34, 98, 34>>,
    \* [1,2,]
    <<91, 49, 44, 50, 44, 93>>,
    \* [1 , ]
    <<91, 49, 32, 44, 32, 93>>,
    \* [","]
    <<91, 34, 44, 34, 93>>,
    \* -01
    <<45, 48, 49>>,
    \* 0x1
    <<48, 120, 49>>,
    \* -1.5e+1
    <<45, 49, 46, 53, 101, 43, 49>>,
    \* 1E1x
    <<49, 69, 49, 120>>,
    \* 1.5.5
    <<49, 46, 53, 46, 53>>,
    \* "a\u0000b"
    <<34, 97, 92, 117, 48, 48, 48, 48, 98, 34>>,
    \* {"a\u0000b":1}
    <<123, 34, 97, 92, 117, 48, 48, 48, 48, 98, 34, 58, 49, 125>>,
    \* "a\n\"\\\/\b\f\r\tz"
    <<34, 97, 92, 110, 92, 34, 92, 92, 92, 47, 92, 98, 92, 102, 92, 114, 92, 116, 122, 34>>,
    \* "\u00e9"
    <<34, 92, 117, 48, 48, 101, 57, 34>>,
    \* "\u20AC"
    <<34, 92, 117, 50, 48, 65, 67, 34>>,
    \* "\x"
    <<34, 92, 120, 34>>,
    \* "\u12"
    <<34, 92, 117, 49, 50, 34>>,
    \* "\u12G4"
    <<34, 92, 117, 49, 50, 71, 52, 34>>,
    \* "a<0x1F>"
    <<34, 97, 31, 34>>,
    \* "a<0x7F><0xC3>"
    <<34, 97, 127, 195, 34>>,
    \* "\<LF>"
    <<34, 92, 10, 34>>
    }

Prefixes == UNION {{SubSeq(d, 1, k) : k \in 1..Len(d)} : d \in Documents}

\* n arrays, each the only element of the one around it
Nest(n) == [i \in 1..(2 * n) |-> IF i <= n THEN Ch.lbracket ELSE Ch.rbracket]

DeepInputs == {Nest(MAX_JSON_DEPTH + d) : d \in 0..2}

Inputs == ShortInputs \cup Prefixes \cup DeepInputs

\* what can lie in memory after input[len - 1]: the terminator
\* read_file_to_arena writes, or the rest of a larger buffer
Tails == {<<0>>, <<114, 117, 101>>, <<93>>, <<53>>, <<120, 49>>}

\* the return values of the inner functions are dead once the caller has
\* used them
Scrub(p) == [p EXCEPT !.ok = TRUE, !.str = NULL, !.num = Dec(FALSE, 0, 0)]

\* the call moves on to its next call of parse_element, or to its return:
\* the function that is waiting is the one on top of the stack
Resume(x) ==
    IF x.p.pc = "element" THEN parse_element(x)
    ELSE IF x.p.pc # "returned" THEN x
    ELSE IF x.p.stack = <<>> THEN json_parse_root(x)
    ELSE IF Top(x).fn = "parse_array" THEN ArrayMember(x)
    ELSE ObjectMember(x)

Resumed(x) == [x EXCEPT !.p = Scrub(@)]

\* n times Resume, or as many as the call takes to return
RECURSIVE Run(_, _)
Run(x, n) ==
    IF x.p.pc = "done" THEN x
    ELSE IF n <= 1 THEN Resumed(Resume(x))
    ELSE Run(Run(x, n \div 2), n - (n \div 2))

\* json_parse(a, input, Len(input), &err) from call to return, with tail in
\* memory after the input: every value takes one parse_element and, in a
\* container, one more round of the container's loop
Parsed(m, input, tail) ==
    Run([m |-> m, p |-> [json_parse(input) EXCEPT !.tail = tail]],
        2 * Len(input) + 2)

\* the tails to tell apart: one that is never read when the call loads no
\* byte past the input, all of them when it does
TailsFor(m, input) == IF Parsed(m, input, <<>>).p.oob THEN Tails ELSE {<<>>}

ParseReturns(x) ==
    /\ arena' = x.m.arena
    /\ regions' = x.m.regions
    /\ sysmem' = x.m.sysmem
    /\ mem' = x.m.mem
    /\ parse' = x.p

JsonParse(input) ==
    /\ parse.pc = "idle"
    /\ \E tail \in TailsFor(Machine, input) : ParseReturns(Parsed(Machine, input, tail))
    /\ last' = [op |-> "json_parse"]
    /\ UNCHANGED <<fresh, held, temps, nops, ub>>

InitParse ==
    /\ arena = [begin |-> NULL, end |-> NULL]
    /\ regions = <<>>
    /\ sysmem \in {0, MaxRegions}
    /\ mem = <<>>
    /\ fresh \in {"zero", "junk"}
    /\ held = {}
    /\ parse = NoCall
    /\ temps = <<>>
    /\ last = [op |-> "arena_init"]
    /\ nops = 0
    /\ ub = FALSE

NextParse == \E input \in Inputs : JsonParse(input)

SpecParse == InitParse /\ [][NextParse]_vars

(***************************************************************************)
(* Properties of json_parse                                                *)
(***************************************************************************)
Deepest == Nest(MAX_JSON_DEPTH + 1)

\* the call has returned
Done == parse.pc = "done"

\* C1: json_parse on 1001 nested opening array brackets followed by the
\* matching closers fails with "Maximum JSON depth exceeded", while 1000
\* nested brackets around an empty innermost array succeed.  (The allocator
\* running out of memory is left aside.)
C1_DepthLimit ==
    (Done /\ ~parse.oom) =>
        /\ parse.input = Deepest =>
              (parse.ret = NULL /\ parse.err.msg = "Maximum JSON depth exceeded")
        /\ parse.input = Nest(MAX_JSON_DEPTH) => parse.ret # NULL

\* C8: json_parse never reads input[i] for i >= len
C8_NoReadPastLen == parse.pc # "idle" => ~parse.oob

\* C9: whenever json_parse returns no value the error slot is populated: the
\* message is non-empty, line >= 1, column >= 1 and offset <= len, on every
\* failure path, zero-length input and allocation failure included
C9_ErrorPopulated ==
    (Done /\ parse.ret = NULL) =>
        /\ parse.err.msg # ""
        /\ parse.err.line >= 1
        /\ parse.err.col >= 1
        /\ parse.err.offset <= parse.len

\* input[i] for rootEnd <= i < len is a space, a tab, a line feed or a
\* carriage return
OnlyWhitespaceLeft ==
    \A i \in parse.rootEnd..(parse.len - 1) :
        parse.input[i + 1] \in {Ch.space, Ch.tab, Ch.nl, Ch.cr}

\* C10: json_parse accepts exactly one JSON value per call: once the root
\* value is parsed, the call returns that value if only whitespace remains
\* before input + len, and otherwise returns no value with the diagnostic
\* "Unexpected garbage after JSON data"
C10_ExactlyOneValue ==
    (Done /\ parse.rootEnd # -1) =>
        IF OnlyWhitespaceLeft
        THEN parse.ret = parse.elem /\ parse.ret # NULL
        ELSE /\ parse.ret = NULL
             /\ parse.err.msg = "Unexpected garbage after JSON data"
             /\ parse.err.offset < parse.len
             /\ parse.input[parse.err.offset + 1] \notin {Ch.space, Ch.tab, Ch.nl, Ch.cr}

\* a call that parsed a root value and met something else after it
C10_Witness ==
    /\ Done
    /\ parse.rootEnd # -1
    /\ parse.rootEnd < parse.len
    /\ ~OnlyWhitespaceLeft
    /\ parse.ret = NULL

\* where a scan of the text stands after the byte c: outside a string, in
\* one, or behind a backslash in one
LexNext(state, c) ==
    IF state = "out" THEN (IF c = Ch.quote THEN "in" ELSE "out")
    ELSE IF state = "esc" THEN "in"
    ELSE IF c = Ch.backslash THEN "esc"
    ELSE IF c = Ch.quote THEN "out"
    ELSE "in"

\* ... before the byte input[i]
RECURSIVE LexState(_, _)
LexState(input, i) ==
    IF i = 1 THEN "out" ELSE LexNext(LexState(input, i - 1), input[i - 1])

Whitespace == {Ch.space, Ch.tab, Ch.nl, Ch.cr}

\* from input[i] on there is whitespace and then a closing bracket or the end
ClosesAt(input, i) ==
    \E j \in i..(Len(input) + 1) :
        /\ \A k \in i..(j - 1) : input[k] \in Whitespace
        /\ j = Len(input) + 1 \/ input[j] \in {Ch.rbracket, Ch.rbrace}

\* a comma outside the strings with nothing but a closing bracket after it
TrailingCommaAt(input, i) ==
    /\ input[i] = Ch.comma
    /\ LexState(input, i) = "out"
    /\ ClosesAt(input, i + 1)

HasTrailingComma(input) == \E i \in 1..Len(input) : TrailingCommaAt(input, i)

\* C11: a ',' followed, after optional whitespace, by a closing bracket or by
\* the end of the input makes json_parse return no value
C11_TrailingCommaRejected ==
    (Done /\ HasTrailingComma(parse.input)) => parse.ret = NULL

\* the input [1,2,] was rejected at its last comma
C11_Witness ==
    /\ Done
    /\ parse.input = <<91, 49, 44, 50, 44, 93>>
    /\ parse.ret = NULL
    /\ parse.err.msg = "Trailing comma in array"
    /\ ~parse.oom

\* the index after the digits of s from index i on
RECURSIVE RunEnd(_, _)
RunEnd(s, i) == IF i <= Len(s) /\ isdigit(s[i]) THEN RunEnd(s, i + 1) ELSE i

\* the JSON number grammar, part by part: the index after the part that
\* starts at index i, 0 when the part is begun but lacks its digits
AfterSign(s) == IF s # <<>> /\ s[1] = Ch.minus THEN 2 ELSE 1
AfterInt(s, i) ==
    IF i > Len(s) THEN 0
    ELSE IF s[i] = Ch.zero THEN i + 1
    ELSE IF RunEnd(s, i) > i THEN RunEnd(s, i) ELSE 0
AfterDigits(s, i) == IF RunEnd(s, i) > i THEN RunEnd(s, i) ELSE 0
AfterFrac(s, i) ==
    IF i = 0 THEN 0
    ELSE IF i <= Len(s) /\ s[i] = Ch.dot THEN AfterDigits(s, i + 1)
    ELSE i
AfterExp(s, i) ==
    IF i = 0 THEN 0
    ELSE IF i <= Len(s) /\ s[i] \in {Ch.e, Ch.E}
    THEN AfterDigits(s, IF i + 1 <= Len(s) /\ s[i + 1] \in {Ch.plus, Ch.minus}
                        THEN i + 2 ELSE i + 1)
    ELSE i
NumberEnd(s) == AfterExp(s, AfterFrac(s, AfterInt(s, AfterSign(s))))

\* s as a whole is a JSON number
IsJsonNumber(s) == NumberEnd(s) = Len(s) + 1

\* a leading zero followed by a digit or a hex marker
LeadingZero(s, i) ==
    /\ i + 1 <= Len(s)
    /\ s[i] = Ch.zero
    /\ isdigit(s[i + 1]) \/ s[i + 1] \in {Ch.x, Ch.X}

\* the shapes that are no number: a leading zero followed by a digit or a hex
\* marker, or a sign, a '.' or an exponent marker without the digits it needs
BadNumberShape(s) == NumberEnd(s) = 0 \/ LeadingZero(s, AfterSign(s))

\* the input is one token of number characters that starts with '-' or a digit
NumberToken(s) ==
    /\ s # <<>>
    /\ s[1] = Ch.minus \/ isdigit(s[1])
    /\ \A i \in 1..Len(s) :
           isdigit(s[i]) \/ s[i] \in {Ch.minus, Ch.plus, Ch.dot, Ch.e, Ch.E, Ch.x, Ch.X}

\* C17: number acceptance is exactly the JSON number grammar: a token that
\* starts with '-' or a digit is accepted iff it is optional '-', then '0' or
\* a digit run that does not start with '0', then optional '.' with at least
\* one digit, then optional 'e'/'E' with optional sign and at least one digit;
\* 01, -01, -, 1., 1e, 0x1 and the other shapes of that kind make json_parse
\* fail with the invalid-number diagnostic
C17_NumberGrammar ==
    (Done /\ ~parse.oom /\ NumberToken(parse.input)) =>
        /\ IsJsonNumber(parse.input) <=>
              (parse.ret # NULL /\ ReadType(Machine, parse.ret) = JSON_NUMBER)
        /\ BadNumberShape(parse.input) =>
              (parse.ret = NULL /\ parse.err.msg = "Invalid number format")

\* json_parse has rejected -01 with the invalid-number diagnostic
C17_Witness ==
    /\ Done
    /\ parse.input = <<45, 48, 49>>
    /\ parse.ret = NULL
    /\ parse.err.msg = "Invalid number format"
    /\ ~parse.oom

(***************************************************************************)
(* json.c: serializer.  w is the pair (buf, pos) the writer functions      *)
(* share: buf is NULL in the measuring pass; bytes is what has been stored *)
(* from buf[0] on; wild is set once the walk has loaded a pointer or a     *)
(* type that the program never stored, or has not come to an end.          *)
(***************************************************************************)
Writer(buf) == [buf |-> buf, pos |-> 0, bytes |-> <<>>, wild |-> FALSE]

w_str(w, str) ==
    [w EXCEPT !.pos = @ + Len(str),
              !.bytes = IF w.buf # NULL THEN @ \o str ELSE @]

w_char(w, c) ==
    [w EXCEPT !.pos = @ + 1,
              !.bytes = IF w.buf # NULL THEN Append(@, c) ELSE @]

Crash(w) == [w EXCEPT !.wild = TRUE]

\* "%02X"
HexDigit(n) == IF n < 10 THEN Ch.zero + n ELSE 55 + n

\* what w_escaped_string writes for the byte c
Escaped(c) ==
    IF c = Ch.quote THEN <<Ch.backslash, Ch.quote>>
    ELSE IF c = Ch.backslash THEN <<Ch.backslash, Ch.backslash>>
    ELSE IF c = Ch.bs THEN <<Ch.backslash, Ch.b>>
    ELSE IF c = Ch.ff THEN <<Ch.backslash, Ch.f>>
    ELSE IF c = Ch.nl THEN <<Ch.backslash, Ch.n>>
    ELSE IF c = Ch.cr THEN <<Ch.backslash, Ch.r>>
    ELSE IF c = Ch.tab THEN <<Ch.backslash, Ch.t>>
    ELSE IF c < 32
    THEN <<Ch.backslash, Ch.u, Ch.zero, Ch.zero, HexDigit(c \div 16), HexDigit(c % 16)>>
    ELSE <<c>>

RECURSIVE EscapedAll(_)
EscapedAll(str) ==
    IF str = <<>> THEN <<>> ELSE Escaped(Head(str)) \o EscapedAll(Tail(str))

\* w_escaped_string on the C string str
WriteEscaped(w, str) ==
    IF str = <<Wild>> THEN Crash(w)
    ELSE w_char(w_str(w_char(w, Ch.quote), EscapedAll(str)), Ch.quote)

\* w_escaped_string(buf, pos, s), s a pointer
w_escaped_string(m, w, s) ==
    IF ~Mapped(m, s) THEN Crash(w) ELSE WriteEscaped(w, ReadCStr(m, s))

RECURSIVE DigitsOf(_)
DigitsOf(n) ==
    IF n < 10 THEN <<Ch.zero + n>> ELSE Append(DigitsOf(n \div 10), Ch.zero + (n % 10))

RECURSIVE Pow10(_)
Pow10(n) == IF n = 0 THEN 1 ELSE 10 * Pow10(n - 1)

Zeros(n) == [i \in 1..n |-> Ch.zero]

\* "%.17g" of m * 10^e, m > 0 without trailing zeros, when that number is a
\* double: the shortest numeral is what 17 significant digits less the
\* trailing zeros come to.  x10: the decimal exponent of the first digit
FormatMagnitude(m, e, x10) ==
    IF x10 < -4 \/ x10 >= 17
    THEN <<Head(DigitsOf(m))>>
         \o (IF m >= 10 THEN <<Ch.dot>> \o Tail(DigitsOf(m)) ELSE <<>>)
         \o <<Ch.e, IF x10 < 0 THEN Ch.minus ELSE Ch.plus>>
         \o (IF x10 \in -9..9 THEN <<Ch.zero>> ELSE <<>>)
         \o DigitsOf(IF x10 < 0 THEN 0 - x10 ELSE x10)
    ELSE IF e >= 0 THEN DigitsOf(m) \o Zeros(e)
    ELSE IF x10 >= 0
    THEN DigitsOf(m \div Pow10(0 - e)) \o <<Ch.dot>>
         \o Zeros((0 - e) - NDigits(m % Pow10(0 - e))) \o DigitsOf(m % Pow10(0 - e))
    ELSE <<Ch.zero, Ch.dot>> \o Zeros((0 - e) - NDigits(m)) \o DigitsOf(m)

\* snprintf(num_buf, sizeof(num_buf), "%.17g", d) for a finite d
FormatG17(d) ==
    (IF d.neg THEN <<Ch.minus>> ELSE <<>>)
    \o (IF d.m = 0 THEN <<Ch.zero>>
        ELSE FormatMagnitude(d.m, d.e, NDigits(d.m) + d.e - 1))

\* v->as.number, v->as.boolean
ReadNumber(m, addr) == IF WordAt(m, addr).k = "num" THEN WordAt(m, addr).v ELSE NaN
ReadBool(m, addr) ==
    IF WordAt(m, addr).k = "bool" THEN WordAt(m, addr).v ELSE ~WordAt(m, addr).z

\* the spaces before a member in pretty mode
Indent(w, n, pretty) == IF pretty THEN w_str(w, [i \in 1..n |-> Ch.space]) ELSE w
Newline(w, pretty) == IF pretty THEN w_char(w, Ch.nl) ELSE w

RECURSIVE json_write_internal(_, _, _, _, _, _)
RECURSIVE WriteMembers(_, _, _, _, _, _, _)

\* if (curr->next) { w_char(','); if (pretty) w_char('\n'); } curr = curr->next;
\* valOut: the writer after curr->value was written
WriteNext(m, curr, valOut, indent, pretty, keyed, fuel) ==
    IF ReadPtr(m, curr + OffNext) # NULL
    THEN WriteMembers(m, ReadPtr(m, curr + OffNext),
                      Newline(w_char(valOut, Ch.comma), pretty),
                      indent, pretty, keyed, fuel)
    ELSE valOut

\* the indentation and, in an object, the key and the colon
WriteKey(m, curr, w, indent, pretty, keyed) ==
    IF keyed
    THEN w_str(w_escaped_string(m, Indent(w, indent + 2, pretty), ReadPtr(m, curr)),
               IF pretty THEN <<Ch.colon, Ch.space>> ELSE <<Ch.colon>>)
    ELSE Indent(w, indent + 2, pretty)

\* one round of the while loop; keyed: an object's loop
WriteMember(m, curr, w, indent, pretty, keyed, fuel) ==
    WriteNext(m, curr,
              json_write_internal(m, ReadPtr(m, curr + OffValue),
                                  WriteKey(m, curr, w, indent, pretty, keyed),
                                  indent + (IF pretty THEN 2 ELSE 0), pretty, fuel),
              indent, pretty, keyed, fuel)

\* while (curr): a node pointer that is not one is a crash, a list without
\* end a loop that never returns
WriteMembers(m, curr, w, indent, pretty, keyed, fuel) ==
    IF w.wild THEN w
    ELSE IF ~Mapped(m, curr) \/ fuel = 0 THEN Crash(w)
    ELSE WriteMember(m, curr, w, indent, pretty, keyed, fuel - 1)

\* if (pretty) { w_char('\n'); for (i < indent) w_char(' '); }
WriteClosed(body, indent, pretty) ==
    IF pretty THEN w_str(w_char(body, Ch.nl), [i \in 1..indent |-> Ch.space])
    ELSE body

\* case JSON_ARRAY / JSON_OBJECT, after the opening bracket
WriteList(m, v, w, indent, pretty, keyed, fuel) ==
    IF ReadPtr(m, v + OffAs) = NULL THEN w
    ELSE WriteClosed(WriteMembers(m, ReadPtr(m, v + OffAs), Newline(w, pretty),
                                  indent, pretty, keyed, fuel),
                     indent, pretty)

json_write_internal(m, v, w, indent, pretty, fuel) ==
    IF v = NULL \/ w.wild THEN w
    ELSE IF ~Mapped(m, v) \/ ReadType(m, v) = Wild \/ fuel = 0 THEN Crash(w)
    ELSE IF ReadType(m, v) = JSON_NULL THEN w_str(w, LitNull)
    ELSE IF ReadType(m, v) = JSON_BOOL
    THEN w_str(w, IF ReadBool(m, v + OffAs) THEN LitTrue ELSE LitFalse)
    ELSE IF ReadType(m, v) = JSON_NUMBER
    THEN IF ReadNumber(m, v + OffAs).c # "fin" THEN w_str(w, LitNull)
         ELSE w_str(w, FormatG17(ReadNumber(m, v + OffAs)))
    ELSE IF ReadType(m, v) = JSON_STRING
    THEN w_escaped_string(m, w, ReadPtr(m, v + OffAs))
    ELSE IF ReadType(m, v) = JSON_ARRAY
    THEN w_char(WriteList(m, v, w_char(w, Ch.lbracket), indent, pretty, FALSE, fuel),
                Ch.rbracket)
    ELSE w_char(WriteList(m, v, w_char(w, Ch.lbrace), indent, pretty, TRUE, fuel),
                Ch.rbrace)

\* the second pass into result, and result[pos] = '\0'
Written(r, w) ==
    IF w.wild THEN Ret(r.m, NULL, FALSE, TRUE)
    ELSE Ret(StoreBytes(r.m, r.ptr, Append(w.bytes, 0)), r.ptr, FALSE, FALSE)

\* the words of the C string at s
StrWords(m, s) ==
    IF ReadCStr(m, s) = <<Wild>> THEN {}
    ELSE {s + WordSize * i : i \in 0..(Len(ReadCStr(m, s)) \div WordSize)}

RECURSIVE Loads(_, _, _)
RECURSIVE NodeLoads(_, _, _, _)

\* the words one round of the while loop loads: curr->key, curr->value,
\* curr->next and what writing the key and the value loads
NodeLoads(m, curr, keyed, fuel) ==
    IF curr = Wild THEN {}
    ELSE {curr, curr + OffValue, curr + OffNext}
         \cup (IF keyed THEN StrWords(m, ReadPtr(m, curr)) ELSE {})
         \cup Loads(m, ReadPtr(m, curr + OffValue), fuel)

\* the words json_write_internal(v, ...) loads
Loads(m, v, fuel) ==
    IF v = NULL \/ ~Mapped(m, v) \/ fuel = 0 \/ ReadType(m, v) = Wild THEN {}
    ELSE IF ReadType(m, v) = JSON_NULL THEN {v}
    ELSE IF ReadType(m, v) \in {JSON_BOOL, JSON_NUMBER} THEN {v, v + OffAs}
    ELSE IF ReadType(m, v) = JSON_STRING
    THEN {v, v + OffAs} \cup StrWords(m, ReadPtr(m, v + OffAs))
    ELSE {v, v + OffAs}
         \cup UNION {NodeLoads(m, Members(m, v)[i], ReadType(m, v) = JSON_OBJECT,
                               fuel - 1) : i \in 1..Len(Members(m, v))}

\* buf[0 .. n-1], which the second pass stores into while it walks v, holds a
\* byte of a word the walk loads: what the walk then loads is not what the
\* measuring pass loaded
Aliased(m, v, buf, n) ==
    \E a \in Loads(m, v, Cardinality(DOMAIN m.mem)) :
        a + WordSize > buf /\ a < buf + n

\* after the measuring pass left n in len; r: arena_alloc_array(a, char, len + 1)
Measured(m, v, pretty, r, n) ==
    IF r.ptr = NULL THEN Ret(r.m, NULL, TRUE, FALSE)
    ELSE IF Aliased(r.m, v, r.ptr, n) THEN Ret(r.m, r.ptr, FALSE, TRUE)
    ELSE Written(r, json_write_internal(r.m, v, Writer(r.ptr), 0, pretty,
                                        Cardinality(DOMAIN m.mem)))

MeasuredLen(m, v, pretty, w) ==
    IF w.wild THEN Ret(m, NULL, FALSE, TRUE)
    ELSE Measured(m, v, pretty, arena_alloc(m, w.pos + 1), w.pos)

json_to_string(m, v, pretty) ==
    IF v = NULL THEN Ret(m, NULL, FALSE, FALSE)
    ELSE MeasuredLen(m, v, pretty,
                     json_write_internal(m, v, Writer(NULL), 0, pretty,
                                         Cardinality(DOMAIN m.mem)))

(***************************************************************************)
(* The value a JsonValue pointer stands for                                *)
(***************************************************************************)
\* type Wild: the structs do not describe a value (a pointer or a type the
\* program never stored, or a walk without end)
RECURSIVE TreeOf(_, _, _)
TreeOf(m, v, fuel) ==
    IF ~Mapped(m, v) \/ fuel = 0 \/ ReadType(m, v) = Wild THEN [type |-> Wild]
    ELSE IF ReadType(m, v) = JSON_NULL THEN [type |-> JSON_NULL]
    ELSE IF ReadType(m, v) = JSON_BOOL
    THEN [type |-> JSON_BOOL, boolean |-> ReadBool(m, v + OffAs)]
    ELSE IF ReadType(m, v) = JSON_NUMBER
    THEN [type |-> JSON_NUMBER, number |-> ReadNumber(m, v + OffAs)]
    ELSE IF ReadType(m, v) = JSON_STRING
    THEN [type |-> JSON_STRING, string |-> ReadCStr(m, ReadPtr(m, v + OffAs))]
    ELSE IF ReadType(m, v) = JSON_ARRAY
    THEN [type |-> JSON_ARRAY,
          list |-> [i \in 1..Len(Kids(m, v)) |-> TreeOf(m, Kids(m, v)[i], fuel - 1)]]
    ELSE [type |-> JSON_OBJECT,
          list |-> [i \in 1..Len(Kids(m, v)) |->
                      [key   |-> IF Members(m, v)[i] = Wild THEN <<Wild>>
                                 ELSE ReadCStr(m, ReadPtr(m, Members(m, v)[i])),
                       value |-> TreeOf(m, Kids(m, v)[i], fuel - 1)]]]

Tree(m, v) == TreeOf(m, v, Cardinality(DOMAIN m.mem))

(***************************************************************************)
(* Round trip: the caller builds a tree, serializes a value of it in       *)
(* compact form and parses the text json_to_string returned                *)
(***************************************************************************)
RoundNumbers == {Dec(FALSE, 1, 0), Dec(TRUE, 25, -1), Dec(FALSE, 1, 22),
                 NaN, Inf(FALSE)}
\* "s" and the bytes 0x01 '"' 0x0A
RoundStrings == {<<115>>, <<1, 34, 10>>}

\* the tree is still being built
Building == parse.pc = "idle" /\ last.op # "json_to_string"

\* size_t len = 0; json_write_internal(v, NULL, &len, 0, pretty);
SizingPass(m, v, pretty) ==
    json_write_internal(m, v, Writer(NULL), 0, pretty, Cardinality(DOMAIN m.mem))

\* char *s = json_to_string(a, v, pretty);  tree: the value v stood for;
\* len: what the measuring pass counted
Serialized(v, pretty) ==
    /\ ~ub
    /\ arena' = json_to_string(Machine, v, pretty).m.arena
    /\ regions' = json_to_string(Machine, v, pretty).m.regions
    /\ sysmem' = json_to_string(Machine, v, pretty).m.sysmem
    /\ mem' = json_to_string(Machine, v, pretty).m.mem
    /\ ub' = json_to_string(Machine, v, pretty).ub
    /\ last' = [op |-> "json_to_string", arg |-> v, pretty |-> pretty,
                ret |-> json_to_string(Machine, v, pretty).ptr,
                oom |-> json_to_string(Machine, v, pretty).oom,
                len |-> SizingPass(Machine, v, pretty).pos,
                tree |-> Tree(Machine, v)]
    /\ UNCHANGED <<fresh, held, temps, nops, parse>>

JsonToString(v, pretty) == Building /\ Serialized(v, pretty)

\* json_parse(a, s, strlen(s), &err): the terminator lies after the text
JsonParseString ==
    /\ parse.pc = "idle"
    /\ ~ub
    /\ last.op = "json_to_string"
    /\ last.ret # NULL
    /\ ParseReturns(Parsed(Machine, ReadCStr(Machine, last.ret), <<0>>))
    /\ UNCHANGED <<fresh, held, temps, last, nops, ub>>

InitRound ==
    /\ arena = [begin |-> NULL, end |-> NULL]
    /\ regions = <<>>
    /\ sysmem = MaxRegions
    /\ mem = <<>>
    /\ fresh \in {"zero", "junk"}
    /\ held = {}
    /\ parse = NoCall
    /\ temps = <<>>
    /\ last = [op |-> "arena_init"]
    /\ nops = 0
    /\ ub = FALSE

NextRound ==
    \/ Building /\ JsonCreateNull
    \/ Building /\ \E b \in BuildBools : JsonCreateBool(b)
    \/ Building /\ \E num \in RoundNumbers : JsonCreateNumber(num)
    \/ Building /\ \E str \in RoundStrings : JsonCreateString(str)
    \/ Building /\ JsonCreateArray
    \/ Building /\ JsonCreateObject
    \/ Building /\ \E obj \in held, key \in BuildKeys, val \in held : JsonAdd(obj, key, val)
    \/ Building /\ \E arr \in held, val \in held : JsonAppend(arr, val)
    \/ \E v \in held : JsonToString(v, FALSE)
    \/ JsonParseString

SpecRound == InitRound /\ [][NextRound]_vars

\* t describes a value throughout: no pointer, type or string in it is one
\* the program did not store
RECURSIVE WellFormed(_)
WellFormed(t) ==
    /\ t.type # Wild
    /\ t.type = JSON_STRING => t.string # <<Wild>>
    /\ t.type = JSON_ARRAY => \A i \in DOMAIN t.list : WellFormed(t.list[i])
    /\ t.type = JSON_OBJECT =>
          \A i \in DOMAIN t.list :
              t.list[i].key # <<Wild>> /\ WellFormed(t.list[i].value)

\* C7: for any tree the builder produced, json_to_string(tree, pretty =
\* false) returns a text, json_parse of that text succeeds, and the tree it
\* yields equals the original: the same variant at every position (non-finite
\* Numbers and strings with control bytes included), the same scalar values,
\* the same container order and length
C7_RoundTrip ==
    (last.op = "json_to_string" /\ ~last.pretty /\ WellFormed(last.tree)) =>
        /\ ~ub
        /\ last.ret # NULL
        /\ parse.pc = "done" =>
              (parse.ret # NULL /\ Tree(Machine, parse.ret) = last.tree)

(***************************************************************************)
(* json.c: json_get and json_at                                            *)
(***************************************************************************)
\* while (curr) { if (strcmp(curr->key, key) == 0) return curr->value;
\*                curr = curr->next; }
\* strcmp reads curr->key: a key that is no string is a crash
RECURSIVE GetFrom(_, _, _, _)
GetFrom(m, curr, key, fuel) ==
    IF curr = NULL THEN Ret(m, NULL, FALSE, FALSE)
    ELSE IF ~Mapped(m, curr) \/ fuel = 0 THEN Ret(m, NULL, FALSE, TRUE)
    ELSE IF ReadCStr(m, ReadPtr(m, curr)) = <<Wild>> THEN Ret(m, NULL, FALSE, TRUE)
    ELSE IF ReadCStr(m, ReadPtr(m, curr)) = key
    THEN Ret(m, ReadPtr(m, curr + OffValue), FALSE, FALSE)
    ELSE GetFrom(m, ReadPtr(m, curr + OffNext), key, fuel - 1)

json_get(m, obj, key) ==
    IF obj = NULL \/ key = NullStr THEN Ret(m, NULL, FALSE, FALSE)
    ELSE IF ~Mapped(m, obj) \/ ReadType(m, obj) = Wild THEN Ret(m, NULL, FALSE, TRUE)
    ELSE IF ReadType(m, obj) # JSON_OBJECT THEN Ret(m, NULL, FALSE, FALSE)
    ELSE GetFrom(m, ReadPtr(m, obj + OffAs), key, Cardinality(DOMAIN m.mem))

\* while (curr) { if (i == index) return curr->value; curr = curr->next; i++; }
RECURSIVE AtFrom(_, _, _, _)
AtFrom(m, curr, index, fuel) ==
    IF curr = NULL THEN Ret(m, NULL, FALSE, FALSE)
    ELSE IF ~Mapped(m, curr) \/ fuel = 0 THEN Ret(m, NULL, FALSE, TRUE)
    ELSE IF index = 0 THEN Ret(m, ReadPtr(m, curr + OffValue), FALSE, FALSE)
    ELSE AtFrom(m, ReadPtr(m, curr + OffNext), index - 1, fuel - 1)

json_at(m, arr, index) ==
    IF arr = NULL THEN Ret(m, NULL, FALSE, FALSE)
    ELSE IF ~Mapped(m, arr) \/ ReadType(m, arr) = Wild THEN Ret(m, NULL, FALSE, TRUE)
    ELSE IF ReadType(m, arr) # JSON_ARRAY THEN Ret(m, NULL, FALSE, FALSE)
    ELSE IF index < 0 THEN Ret(m, NULL, FALSE, FALSE)
    ELSE AtFrom(m, ReadPtr(m, arr + OffAs), index, Cardinality(DOMAIN m.mem))

\* the keys of the members of v, in list order
KeysOf(m, v) ==
    [i \in 1..Len(Members(m, v)) |->
        IF Members(m, v)[i] = Wild THEN <<Wild>>
        ELSE ReadCStr(m, ReadPtr(m, Members(m, v)[i]))]

(***************************************************************************)
(* Queries: the caller builds containers member by member, then looks      *)
(* members up with json_get and json_at                                    *)
(***************************************************************************)
\* "k" and "k2"
QueryKeys == {<<107>>, <<107, 50>>}
QueryNumbers == {Dec(FALSE, 1, 0), Dec(FALSE, 2, 0)}
QueryIndexes == {-1, 0, 1, 2}
QueryOps == {"json_get", "json_at"}

\* the caller has not looked anything up yet
Filling == last.op \notin QueryOps

\* a json_add_number / json_append_number call, with what parent held before
Extended(r, op, kind, parent, key, num) ==
    /\ Filling
    /\ BuildStep(r, [op |-> op, parent |-> parent, key |-> key, oom |-> r.oom,
                     applies |-> ReadType(Machine, parent) = kind,
                     kids0 |-> Kids(Machine, parent),
                     keys0 |-> KeysOf(Machine, parent),
                     tree0 |-> Tree(Machine, parent),
                     tree |-> [type |-> JSON_NUMBER, number |-> num]])
    /\ UNCHANGED held

QueryAddNumber(obj, key, num) ==
    Extended(json_add_number(Machine, obj, key, num), "json_add_number",
             JSON_OBJECT, obj, key, num)

QueryAppendNumber(arr, num) ==
    Extended(json_append_number(Machine, arr, num), "json_append_number",
             JSON_ARRAY, arr, NullStr, num)

\* a call that changes nothing in memory
Queried(r, call) ==
    /\ ~ub
    /\ ub' = r.ub
    /\ last' = call
    /\ UNCHANGED <<arena, regions, sysmem, mem, fresh, held, temps, nops, parse>>

JsonGet(obj, key) ==
    Queried(json_get(Machine, obj, key),
            [op |-> "json_get", arg |-> obj, key |-> key,
             ret |-> json_get(Machine, obj, key).ptr])

JsonAt(arr, index) ==
    Queried(json_at(Machine, arr, index),
            [op |-> "json_at", arg |-> arr, index |-> index,
             ret |-> json_at(Machine, arr, index).ptr])

InitQuery ==
    /\ arena = [begin |-> NULL, end |-> NULL]
    /\ regions = <<>>
    /\ sysmem \in {1, MaxRegions}
    /\ mem = <<>>
    /\ fresh \in {"zero", "junk"}
    /\ held = {}
    /\ parse = NoCall
    /\ temps = <<>>
    /\ last = [op |-> "arena_init"]
    /\ nops = 0
    /\ ub = FALSE

NextQuery ==
    \/ Filling /\ JsonCreateArray
    \/ Filling /\ JsonCreateObject
    \/ Filling /\ BuildAlloc(8124)
    \/ \E obj \in held, key \in QueryKeys, num \in QueryNumbers :
          QueryAddNumber(obj, key, num)
    \/ \E arr \in held, num \in QueryNumbers : QueryAppendNumber(arr, num)
    \/ \E obj \in held \cup {NULL}, key \in QueryKeys \cup {NullStr} : JsonGet(obj, key)
    \/ \E arr \in held \cup {NULL}, index \in QueryIndexes : JsonAt(arr, index)

SpecQuery == InitQuery /\ [][NextQuery]_vars

\* the value of the first member of obj whose key is key, NULL without one
FirstMatch(m, obj, key) ==
    IF \E i \in 1..Len(KeysOf(m, obj)) : KeysOf(m, obj)[i] = key
    THEN Kids(m, obj)[CHOOSE i \in 1..Len(KeysOf(m, obj)) :
                         /\ KeysOf(m, obj)[i] = key
                         /\ \A j \in 1..(i - 1) : KeysOf(m, obj)[j] # key]
    ELSE NULL

\* C12: json_get never fails; it returns the value of the earliest-added
\* member whose key equals k, and NULL when obj is absent, is not an Object,
\* k is absent, or no member has key k
C12_GetFirstMatch ==
    last.op = "json_get" =>
        /\ ~ub
        /\ last.ret = IF \/ last.arg = NULL
                         \/ last.key = NullStr
                         \/ ReadType(Machine, last.arg) # JSON_OBJECT
                      THEN NULL
                      ELSE FirstMatch(Machine, last.arg, last.key)

\* C13: a successful json_add / json_append call puts its value behind the
\* members the container had, which stay as they were; a call on a value of
\* the other kind leaves it unchanged; json_at(arr, i) never fails and returns
\* the i-th member of an Array for 0 <= i < n, and NULL otherwise
C13_InsertionOrder ==
    /\ (last.op \in {"json_add_number", "json_append_number"} /\ ~ub) =>
          IF last.applies
          THEN last.oom \/
               /\ Len(Kids(Machine, last.parent)) = Len(last.kids0) + 1
               /\ SubSeq(Kids(Machine, last.parent), 1, Len(last.kids0)) = last.kids0
               /\ Tree(Machine, Kids(Machine, last.parent)[Len(last.kids0) + 1])
                     = last.tree
               /\ last.key # NullStr =>
                     KeysOf(Machine, last.parent) = Append(last.keys0, last.key)
          ELSE Tree(Machine, last.parent) = last.tree0
    /\ last.op = "json_at" =>
          /\ ~ub
          /\ last.ret = IF \/ last.arg = NULL
                           \/ ReadType(Machine, last.arg) # JSON_ARRAY
                           \/ last.index < 0
                           \/ last.index >= Len(Kids(Machine, last.arg))
                        THEN NULL
                        ELSE Kids(Machine, last.arg)[last.index + 1]

(***************************************************************************)
(* Serializing: the caller parses a document or builds a tree, perhaps     *)
(* after arena_reset, and serializes a value in compact or pretty form     *)
(***************************************************************************)
WriteKeys    == {<<97>>}
WriteNumbers == {Dec(FALSE, 1, 0), Dec(TRUE, 25, -1)}
WriteDocuments == {
    \* {"a":1}
    <<123, 34, 97, 34, 58, 49, 125>>,
    \* [1]
    <<91, 49, 93>>,
    \* []
    <<91, 93>>,
    \* {}
    <<123, 125>>,
    \* "s\n"
    <<34, 115, 92, 110, 34>>,
    \* [[1,2],{"b":[]}]
    <<91, 91, 49, 44, 50, 93, 44, 123, 34, 98, 34, 58, 91, 93, 125, 93>>,
    \* {"a":[true,{"b":null}],"c":"d"}
    <<123, 34, 97, 34, 58, 91, 116, 114, 117, 101, 44, 123, 34, 98, 34, 58,
      110, 117, 108, 108, 125, 93, 44, 34, 99, 34, 58, 34, 100, 34, 125>>}

\* nothing has been serialized yet
Composing == last.op # "json_to_string"

\* json_to_string on a value the caller built
JsonWriteBuilt(v, pretty) == Serialized(v, pretty)

\* json_to_string on the root json_parse has just returned
JsonWriteParsed(pretty) ==
    /\ last.op = "json_parse"
    /\ Serialized(parse.ret, pretty)

InitWrite ==
    /\ arena = [begin |-> NULL, end |-> NULL]
    /\ regions = <<>>
    /\ sysmem = MaxRegions
    /\ mem = <<>>
    /\ fresh \in {"zero", "junk"}
    /\ held = {}
    /\ parse = NoCall
    /\ temps = <<>>
    /\ last = [op |-> "arena_init"]
    /\ nops = 0
    /\ ub = FALSE

NextWrite ==
    \/ Composing /\ \E input \in WriteDocuments : JsonParse(input)
    \/ Composing /\ JsonCreateArray
    \/ Composing /\ JsonCreateObject
    \/ Composing /\ \E obj \in held, key \in WriteKeys, num \in WriteNumbers :
                       JsonAddNumber(obj, key, num)
    \/ Composing /\ \E arr \in held, num \in WriteNumbers : JsonAppendNumber(arr, num)
    \/ Composing /\ BuildReset
    \/ Composing /\ \E v \in held, pretty \in BOOLEAN : JsonWriteBuilt(v, pretty)
    \/ Composing /\ \E pretty \in BOOLEAN : JsonWriteParsed(pretty)

SpecWrite == InitWrite /\ [][NextWrite]_vars

\* json_to_string was called on a value and the arena had room for the text
Wrote == last.op = "json_to_string" /\ last.arg # NULL /\ ~last.oom

\* C14: for every tree the two passes agree: the text json_to_string returns
\* is as long as the byte count of the sizing pass, the one allocation made
\* for it is count + 1 bytes (it ends right after the terminator), and the
\* terminating NUL lies at index count, so the writing pass stored nothing at
\* an index >= count
C14_TwoPassExact ==
    Wrote =>
        /\ ~ub
        /\ last.ret # NULL
        /\ ReadCStr(Machine, last.ret) # <<Wild>>
        /\ Len(ReadCStr(Machine, last.ret)) = last.len
        /\ DataAddr(arena.end) + regions[arena.end].count = last.ret + last.len + 1


\* n spaces
Spaces(n) == [i \in 1..n |-> Ch.space]

\* the text of a scalar
ScalarText(t) ==
    IF t.type = JSON_NULL THEN LitNull
    ELSE IF t.type = JSON_BOOL THEN (IF t.boolean THEN LitTrue ELSE LitFalse)
    ELSE IF t.type = JSON_NUMBER
    THEN (IF t.number.c = "fin" THEN FormatG17(t.number) ELSE LitNull)
    ELSE <<Ch.quote>> \o EscapedAll(t.string) \o <<Ch.quote>>

RECURSIVE Layout(_, _, _)
RECURSIVE LayoutFrom(_, _, _, _, _)

\* member i of a container at nesting level `level`: in pretty mode two spaces
\* per level before it and one space after the colon
LayoutMember(t, i, level, pretty) ==
    (IF pretty THEN Spaces(2 * level) ELSE <<>>)
    \o (IF t.type = JSON_OBJECT
        THEN <<Ch.quote>> \o EscapedAll(t.list[i].key) \o <<Ch.quote, Ch.colon>>
             \o (IF pretty THEN <<Ch.space>> ELSE <<>>)
             \o Layout(t.list[i].value, level + 1, pretty)
        ELSE Layout(t.list[i], level + 1, pretty))

\* members i.. of t, a comma (and in pretty mode a newline) after each but the
\* last
LayoutFrom(t, i, level, pretty, n) ==
    IF i > n THEN <<>>
    ELSE LayoutMember(t, i, level, pretty)
         \o (IF i < n THEN <<Ch.comma>> \o (IF pretty THEN <<Ch.nl>> ELSE <<>>)
             ELSE <<>>)
         \o LayoutFrom(t, i + 1, level, pretty, n)

\* the text of tree t whose members are at nesting level `level`
Layout(t, level, pretty) ==
    IF t.type \notin {JSON_ARRAY, JSON_OBJECT} THEN ScalarText(t)
    ELSE <<IF t.type = JSON_ARRAY THEN Ch.lbracket ELSE Ch.lbrace>>
         \o (IF t.list = <<>> THEN <<>>
             ELSE (IF pretty THEN <<Ch.nl>> ELSE <<>>)
                  \o LayoutFrom(t, 1, level, pretty, Len(t.list))
                  \o (IF pretty THEN <<Ch.nl>> \o Spaces(2 * (level - 1)) ELSE <<>>))
         \o <<IF t.type = JSON_ARRAY THEN Ch.rbracket ELSE Ch.rbrace>>

\* the Object whose one member "a" is the Number 1
ObjectA1 ==
    [type |-> JSON_OBJECT,
     list |-> <<[key |-> <<97>>,
                 value |-> [type |-> JSON_NUMBER, number |-> Dec(FALSE, 1, 0)]]>>]

\* C15: compact output has no whitespace around ',' and ':'; pretty output
\* indents by two spaces per nesting level, with a newline after the opening
\* bracket of a non-empty container, after each ',' and before the closing
\* bracket, and one space after ':'; an empty array and an empty object are
\* [] and {} in both modes; the Object {"a": 1} is {"a":1} in compact and
\* {, newline, two spaces, "a": 1, newline, } in pretty mode
C15_Layout ==
    Wrote =>
        /\ ~ub
        /\ last.ret # NULL
        /\ WellFormed(last.tree)
        /\ ReadCStr(Machine, last.ret) = Layout(last.tree, 1, last.pretty)
        /\ (last.tree.type \in {JSON_ARRAY, JSON_OBJECT} /\ last.tree.list = <<>>) =>
              ReadCStr(Machine, last.ret) \in {<<91, 93>>, <<123, 125>>}
        /\ (last.tree = ObjectA1 /\ ~last.pretty) =>
              ReadCStr(Machine, last.ret) = <<123, 34, 97, 34, 58, 49, 125>>
        /\ (last.tree = ObjectA1 /\ last.pretty) =>
              ReadCStr(Machine, last.ret) =
                  <<123, 10, 32, 32, 34, 97, 34, 58, 32, 49, 10, 125>>


(***************************************************************************)
(* Strings json_parse produces                                             *)
(***************************************************************************)
\* the decoded content of the string token whose opening quote is at offset
\* start - 1 of the input: every byte parse_string writes before the
\* terminator
DecodedAt(start) ==
    Decode(parse, start, ScanString(parse, start, FALSE).scan, <<>>).out

\* C18: every String value and every Object key a successful json_parse
\* produces has NUL-free content: no accepted input, \u0000 included, yields
\* a string whose decoded content contains a 0 byte, so json_get and
\* json_to_string see the whole decoded string
C18_NulFreeStrings ==
    (Done /\ parse.ret # NULL) =>
        /\ parse.input[1] = Ch.quote =>
              /\ \A i \in 1..Len(DecodedAt(1)) : DecodedAt(1)[i] # 0
              /\ ReadCStr(Machine, ReadPtr(Machine, parse.ret + OffAs)) = DecodedAt(1)
        /\ (parse.input[1] = Ch.lbrace /\ parse.input[2] = Ch.quote) =>
              /\ \A i \in 1..Len(DecodedAt(2)) : DecodedAt(2)[i] # 0
              /\ ReadCStr(Machine, ReadPtr(Machine, ReadPtr(Machine, parse.ret + OffAs)))
                    = DecodedAt(2)
              /\ (Len(Members(Machine, parse.ret)) = 1 /\ DecodedAt(2) # <<97>>) =>
                    json_get(Machine, parse.ret, <<97>>).ptr = NULL

IsHex(c) == c \in (48..57) \cup (65..70) \cup (97..102)

\* the characters that may follow a backslash, u apart
EscapeLetters == {Ch.quote, Ch.backslash, Ch.slash, Ch.b, Ch.f, Ch.n, Ch.r, Ch.t}

\* the index of the closing quote of the string token whose content starts at
\* index i of s; 0 when the token has a raw byte below 0x20, no closing quote,
\* a truncated escape, a backslash before a character that is none of
\* " \ / b f n r t u, or a \u without four hex digits after it
RECURSIVE StringEnd(_, _)
StringEnd(s, i) ==
    IF i > Len(s) THEN 0
    ELSE IF s[i] = Ch.quote THEN i
    ELSE IF s[i] < 32 THEN 0
    ELSE IF s[i] # Ch.backslash THEN StringEnd(s, i + 1)
    ELSE IF i + 1 > Len(s) THEN 0
    ELSE IF s[i + 1] \in EscapeLetters THEN StringEnd(s, i + 2)
    ELSE IF s[i + 1] = Ch.u /\ i + 5 <= Len(s) /\ \A k \in 2..5 : IsHex(s[i + k])
    THEN StringEnd(s, i + 6)
    ELSE 0

\* the input is one string token: it is rejected by a rule or ends with the
\* closing quote
StringToken(s) == s # <<>> /\ s[1] = Ch.quote /\ StringEnd(s, 2) \in {0, Len(s)}

\* C19: json_parse rejects a string token that contains a raw byte below
\* 0x20, has no closing quote before input + len, ends in a truncated escape,
\* has a backslash before a character other than " \ / b f n r t u, or has a
\* \u that is not followed by four hex digits inside the string; every other
\* string token is accepted, and without escapes the String holds exactly the
\* bytes between the quotes
C19_StringValidation ==
    (Done /\ ~parse.oom /\ StringToken(parse.input)) =>
        /\ StringEnd(parse.input, 2) = Len(parse.input) <=>
              (parse.ret # NULL /\ ReadType(Machine, parse.ret) = JSON_STRING)
        /\ (parse.ret # NULL /\ \A i \in 1..Len(parse.input) :
                                   parse.input[i] # Ch.backslash) =>
              ReadCStr(Machine, ReadPtr(Machine, parse.ret + OffAs))
                  = SubSeq(parse.input, 2, Len(parse.input) - 1)

\* json_parse has rejected "\x" for its escape
C19_Witness ==
    /\ Done
    /\ parse.input = <<34, 92, 120, 34>>
    /\ parse.ret = NULL
    /\ parse.err.msg = "Invalid escape sequence"
    /\ ~parse.oom

(***************************************************************************)
(* Source positions: one json_parse call followed from one parse_element    *)
(* or container round to the next, so that the cursor, line and column are  *)
(* seen wherever a token has just been consumed                             *)
(***************************************************************************)
ScanDocuments == {
    \* {<LF> "k" : [10, 2.5e1,<LF><TAB>"s", "e\n"],<CR><LF>"t":true<LF>}<LF>
    <<123, 10, 32, 34, 107, 34, 32, 58, 32, 91, 49, 48, 44, 32, 50, 46, 53, 101,
      49, 44, 10, 9, 34, 115, 34, 44, 32, 34, 101, 92, 110, 34, 93, 44, 13, 10,
      34, 116, 34, 58, 116, 114, 117, 101, 10, 125, 10>>,
    \* [1,<LF> 25x]
    <<91, 49, 44, 10, 32, 50, 53, 120, 93>>,
    \* "ab"<LF><LF>x
    <<34, 97, 98, 34, 10, 10, 120>>,
    \* [<LF>-0.5,<LF>null,<LF>false<LF>]
    <<91, 10, 45, 48, 46, 53, 44, 10, 110, 117, 108, 108, 44, 10, 102, 97, 108,
      115, 101, 10, 93>>,
    \* [<LF>"a<LF>"]
    <<91, 10, 34, 97, 10, 34, 93>>,
    \* <LF><LF>  12
    <<10, 10, 32, 32, 49, 50>>
    }

ScanInputs ==
    ShortInputs \cup UNION {{SubSeq(d, 1, k) : k \in 1..Len(d)} : d \in ScanDocuments}

\* json_parse(a, input, Len(input), &err) up to its first parse_element
ScanCall(input) ==
    /\ parse.pc = "idle"
    /\ \E tail \in Tails : parse' = [json_parse(input) EXCEPT !.tail = tail]
    /\ last' = [op |-> "json_parse"]
    /\ UNCHANGED <<arena, regions, sysmem, mem, fresh, held, temps, nops, ub>>

\* the call runs on to its next parse_element, or to its return
ScanStep ==
    /\ parse.pc \notin {"idle", "done"}
    /\ ParseReturns(Resumed(Resume([m |-> Machine, p |-> parse])))
    /\ UNCHANGED <<fresh, held, temps, last, nops, ub>>

InitScan ==
    /\ arena = [begin |-> NULL, end |-> NULL]
    /\ regions = <<>>
    /\ sysmem \in {0, MaxRegions}
    /\ mem = <<>>
    /\ fresh = "zero"
    /\ held = {}
    /\ parse = NoCall
    /\ temps = <<>>
    /\ last = [op |-> "arena_init"]
    /\ nops = 0
    /\ ub = FALSE

NextScan ==
    \/ \E input \in ScanInputs : ScanCall(input)
    \/ ScanStep

SpecScan == InitScan /\ [][NextScan]_vars

\* the places of the line-feed bytes in input[0 .. offset)
LineFeeds(input, offset) == {i \in 1..offset : input[i] = Ch.nl}

LastLineFeed(input, offset) ==
    IF LineFeeds(input, offset) = {} THEN 0
    ELSE CHOOSE i \in LineFeeds(input, offset) :
             \A j \in LineFeeds(input, offset) : j <= i

Consistent(input, line, col, offset) ==
    /\ offset <= Len(input)
    /\ line = 1 + Cardinality(LineFeeds(input, offset))
    /\ col = 1 + offset - LastLineFeed(input, offset)

\* C25: throughout a json_parse call, wherever a token has been consumed and
\* in every error that is reported, line is 1 + the number of line-feed bytes
\* in input[0 .. offset) and column is 1 + the number of bytes between the
\* last such line feed (or the start of the input) and offset, where offset
\* is the cursor's distance from the start and is at most len
C25_PositionConsistent ==
    parse.pc # "idle" =>
        /\ Consistent(parse.input, parse.line, parse.col, parse.curr)
        /\ parse.err.msg # "" =>
              Consistent(parse.input, parse.err.line, parse.err.col, parse.err.offset)

\* an error has been reported on a later line, right after a number that
\* was consumed on the fast path
C25_Witness ==
    /\ parse.pc = "done"
    /\ parse.err.msg # ""
    /\ parse.err.line >= 2
    /\ parse.err.col >= 3
    /\ parse.err.offset < parse.len
    /\ isdigit(parse.input[parse.err.offset])
    /\ parse.input[parse.err.offset + 1] = Ch.x

====
